---- MODULE Spec2Model ----
(***************************************************************************)
(* Room / bet coordination layer of sports-watch-bet.                      *)
(*                                                                         *)
(* The socket handlers are those of src/backend/server.js (latest          *)
(* iteration, lines 1033-1206).  The requestCancelBet handler and the      *)
(* auto-settlement loop have no handler in the backend source (only the    *)
(* client that calls them / renders their results is present), so they     *)
(* are modelled from the written specification.                            *)
(*                                                                         *)
(* Spec       one room, one bet: the bet state machine and the loop        *)
(* SpecMedia  two rooms, emissions recorded: chat, readiness, signaling    *)
(* SpecSettle two rooms, two bets: settlement across rooms                 *)
(* SpecFrame  as SpecSettle, with rooms that have no match                 *)
(* SpecClient one browser client: readiness, peers, buffered signals       *)
(* SpecReconnect one media room, a participant on two connections         *)
(* SpecLive   one room, one bet, the settlement loop under fair scheduling *)
(* SpecGames  one GET /api/games request against the scoreboard feed       *)
(***************************************************************************)
EXTENDS Integers, Sequences, FiniteSets, TLC

\* ---------------------------------------------------------------- bounds
MaxSockets == 3
MaxLeagues == 3
MaxBets == 1

\* ------------------------------------------------------------- constants
StartCredits == 1000

Null == "null"
Undefined == "undefined"

\* !x for the values the handlers receive as room key, name, text or payload
Falsy(x) == x \in {"", Null, Undefined}

RoomIds == {"public:1", "private:X"}
Matches == {"m1"}
\* the descriptors a join may carry: that of the match, and a refreshed one
Descriptors == Matches \cup {"m2"}

\* Inputs the handlers are driven with.
OfferInputs ==
  { [title |-> "Derby", stake |-> 100, pick |-> "Lions win"],
    [title |-> "", stake |-> 0, pick |-> ""] }
AcceptInputs ==
  { [pick |-> "Tigers win", stake |-> 50],
    [pick |-> "", stake |-> 0] }

VARIABLES
  conn,       \* connection handles currently connected
  nextSock,   \* next connection handle socket.io hands out
  joined,     \* socket.io adapter: handle -> set of room keys it is subscribed to
  roomKeys,   \* roomState Map: keys in insertion order
  roomState,  \* roomState Map: key -> room record
  nextBet,    \* next bet id
  tick,       \* settlement loop: room whose score lookup is in flight, rooms still to visit
  emitted,    \* what the last step emitted, in order (recorded when watch is set)
  watch,      \* whether emissions are recorded
  client,     \* one browser client: its video state, peers and buffered signals,
              \* with the event it handled last and the names it has heard from
  games       \* one GET /api/games request: the query, what the scoreboard feed
              \* returns for each URL, and the response once it is sent

vars == <<conn, nextSock, joined, roomKeys, roomState, nextBet, tick, emitted, watch,
          client, games>>

\* ---------------------------------------------------------------- helpers
Filter(seq, Keep(_)) == SelectSeq(seq, Keep)

\* Array.prototype.find: index of the first match, 0 when there is none
FindIndex(seq, Test(_)) ==
  LET I == {i \in 1..Len(seq) : Test(seq[i])}
  IN IF I = {} THEN 0 ELSE CHOOSE i \in I : \A j \in I : i <= j

Range(seq) == {seq[i] : i \in 1..Len(seq)}

\* room keys as text, for String.prototype.startsWith
KeyText(k) ==
  CASE k = "public:1" -> <<"p","u","b","l","i","c",":","1">>
    [] k = "private:X" -> <<"p","r","i","v","a","t","e",":","X">>
    [] k = "private" -> <<"p","r","i","v","a","t","e">>
    [] k = " " -> <<" ">>
    [] OTHER -> <<>>

PrivateMarker == <<"p","r","i","v","a","t","e",":">>

StartsWith(text, prefix) ==
  /\ Len(text) >= Len(prefix)
  /\ \A i \in 1..Len(prefix) : text[i] = prefix[i]

\* sockets subscribed to a socket.io room
RoomSockets(jn, roomId) == {s \in DOMAIN jn : roomId \in jn[s]}

Msg(to, text) == [ev |-> "message", to |-> to, data |-> text]

NewRoom(roomId) ==
  [users |-> <<>>,
   bets |-> <<>>,
   match |-> Null,
   videoAllowed |-> StartsWith(KeyText(roomId), PrivateMarker),
   videoReady |-> {}]

\* roomState.set(roomId, st) on a (keys, map) pair
MapSet(rs, roomId, st) ==
  [r \in DOMAIN rs \cup {roomId} |-> IF r = roomId THEN st ELSE rs[r]]

MapDelete(rs, roomId) == [r \in DOMAIN rs \ {roomId} |-> rs[r]]

KeysSet(keys, roomId) ==
  IF roomId \in Range(keys) THEN keys ELSE Append(keys, roomId)

KeysDelete(keys, roomId) == Filter(keys, LAMBDA k : k # roomId)

\* mutant: the snapshot is sent twice
EmitRoom_Twice(rs, jn, roomId) ==
  IF roomId \in DOMAIN rs
  THEN << [ev |-> "room-state", room |-> roomId, to |-> RoomSockets(jn, roomId),
           data |-> rs[roomId]],
          [ev |-> "room-state", room |-> roomId, to |-> RoomSockets(jn, roomId),
           data |-> rs[roomId]] >>
  ELSE << >>

\* emitRoom(roomId): the snapshot is the room record as it is at the call,
\* addressed to the socket.io room of that key
EmitRoom(rs, jn, roomId) ==
  IF roomId \in DOMAIN rs
  THEN << [ev |-> "room-state", room |-> roomId, to |-> RoomSockets(jn, roomId),
           data |-> rs[roomId]] >>
  ELSE << >>

IdleTick == [room |-> "", queue |-> <<>>]

\* the client under study and the identities it hears of
Me == "alice"
Names == {"alice", "bob", "carol"}
SignalData == {"offer", "ice"}

\* the client when it enters the room: no video, no peer, nothing buffered
ClientInit ==
  [video |-> FALSE,
   users |-> {},
   ready |-> {},
   peers |-> {},
   pending |-> [n \in Names |-> << >>],
   applied |-> [n \in Names |-> << >>],
   last |-> [ev |-> "", from |-> ""],
   heard |-> {},
   made |-> << >>]

\* the leagues of the default soccer mix
DefaultCodes ==
  <<"uefa.champions", "eng.1", "esp.1", "ita.1", "ger.1", "fra.1", "usa.1", "ksa.1">>

\* the first MaxLeagues of them
MixCodes == SubSeq(DefaultCodes, 1, MaxLeagues)

\* the scoreboards the feed is asked for: one per league of the mix, and the
\* NBA's
FeedKeys == {MixCodes[i] : i \in 1..Len(MixCodes)} \cup {"nba"}

\* a scoreboard request that fails (timeout, network error, error status)
FeedFailure == [ok |-> FALSE, events |-> << >>]

NoResponse == [code |-> 0, games |-> << >>]

\* no games request is being served
GamesIdle ==
  [req |-> [sport |-> "", leagueCode |-> "", date |-> ""],
   feed |-> [k \in FeedKeys |-> FeedFailure],
   resp |-> NoResponse]

\* ------------------------------------------------------------------- Init
Init ==
  /\ conn = {}
  /\ nextSock = 1
  /\ joined = << >>
  /\ roomKeys = << >>
  /\ roomState = << >>
  /\ nextBet = 1
  /\ tick = IdleTick
  /\ emitted = << >>
  /\ watch = FALSE
  /\ client = ClientInit
  /\ games = GamesIdle

\* the part of the state the socket handlers work on; a handler that returns
\* early returns it as it is, with nothing emitted
Cur == [jn |-> joined, keys |-> roomKeys, rs |-> roomState, nb |-> nextBet, out |-> << >>]

Apply(R) ==
  /\ joined' = R.jn
  /\ roomKeys' = R.keys
  /\ roomState' = R.rs
  /\ nextBet' = R.nb
  /\ emitted' = IF watch THEN R.out ELSE << >>
  /\ UNCHANGED <<watch, client, games>>

\* a client opens a connection: socket.io hands out a fresh handle
Connect ==
  /\ conn' = conn \cup {nextSock}
  /\ nextSock' = nextSock + 1
  /\ joined' = [s \in DOMAIN joined \cup {nextSock} |->
                  IF s = nextSock THEN {} ELSE joined[s]]
  /\ emitted' = << >>
  /\ UNCHANGED <<roomKeys, roomState, nextBet, tick, watch, client, games>>

\* ------------------------------------------------------------- membership
getOrCreateRoom(rs, roomId) ==
  IF roomId \in DOMAIN rs THEN rs[roomId] ELSE NewRoom(roomId)

\* mutant: the balance of a participant already listed is not carried over
JoinCredits_Lost(users, username) ==
  LET ex == FindIndex(users, LAMBDA u : u.username = username)
  IN IF ex # 0 THEN 0 ELSE StartCredits

\* joinRoom: credits of the first participant already listed under this name
JoinCredits(users, username) ==
  LET ex == FindIndex(users, LAMBDA u : u.username = username)
  IN IF ex # 0 THEN users[ex].credits ELSE StartCredits

\* mutant: the joining connection's earlier entry is not taken out
JoinUsers_Push(users, s, username) ==
  Append(users,
         [id |-> s, username |-> username, credits |-> JoinCredits(users, username)])

\* joinRoom: the participant list after the join
JoinUsers(users, s, username) ==
  Append(Filter(users, LAMBDA u : u.id # s),
         [id |-> s, username |-> username, credits |-> JoinCredits(users, username)])

\* mutant: a stored descriptor is never replaced
JoinMatch_KeepFirst(stored, match) == IF stored # Null THEN stored ELSE match

\* joinRoom: match || st.match
JoinMatch(stored, match) == IF match # Null THEN match ELSE stored

joinRoom(s, roomId, username, match) ==
  IF Falsy(roomId) \/ Falsy(username) THEN Cur
  ELSE LET jn == [joined EXCEPT ![s] = @ \cup {roomId}]
           st == [getOrCreateRoom(roomState, roomId) EXCEPT
                    !.match = JoinMatch(@, match),
                    !.users = JoinUsers(@, s, username)]
           rs == MapSet(roomState, roomId, st)
       IN [Cur EXCEPT
             !.jn = jn,
             !.keys = KeysSet(roomKeys, roomId),
             !.rs = rs,
             !.out = << Msg(RoomSockets(jn, roomId), <<username, "joined">>),
                        [ev |-> "peer-joined", to |-> RoomSockets(jn, roomId) \ {s},
                         data |-> s] >>
                     \o EmitRoom(rs, jn, roomId)]

JoinRoom(s, roomId, username, match) ==
  /\ Apply(joinRoom(s, roomId, username, match))
  /\ UNCHANGED <<conn, nextSock, tick>>

\* mutant: every entry under the leaving connection's name is taken out
DropUser_ByName(users, socketId) ==
  LET names == {users[i].username : i \in {j \in 1..Len(users) : users[j].id = socketId}}
  IN Filter(users, LAMBDA u : u.username \notin names)

\* the participant list without the entry of a connection handle
DropUser(users, socketId) == Filter(users, LAMBDA u : u.id # socketId)

\* mutant: a room is kept when its last participant is dropped
RoomIsEmpty_Never(st) == FALSE

\* the test that deletes a room after a participant was dropped
RoomIsEmpty(st) == Len(st.users) = 0

PeerLeft(jn, roomId, s) ==
  << [ev |-> "peer-left", to |-> RoomSockets(jn, roomId) \ {s}, data |-> s],
     Msg(RoomSockets(jn, roomId), <<"Someone left">>) >>

\* removeFromRoom(roomId, socketId) -> [rs, keys, removed, out]
removeFromRoom(rs, keys, jn, roomId, socketId) ==
  IF roomId \notin DOMAIN rs
  THEN [rs |-> rs, keys |-> keys, removed |-> FALSE, out |-> << >>]
  ELSE LET st == rs[roomId]
           st1 == [st EXCEPT !.users = DropUser(@, socketId),
                             !.videoReady = @ \ {socketId}]
           rs1 == MapSet(rs, roomId, st1)
       IN IF Len(st1.users) # Len(st.users)
          THEN [rs |-> IF RoomIsEmpty(st1) THEN MapDelete(rs1, roomId) ELSE rs1,
                keys |-> IF RoomIsEmpty(st1) THEN KeysDelete(keys, roomId) ELSE keys,
                removed |-> TRUE,
                out |-> EmitRoom(rs1, jn, roomId)]
          ELSE [rs |-> rs1, keys |-> keys, removed |-> FALSE, out |-> << >>]

leaveRoom(s, roomId) ==
  IF Falsy(roomId) THEN Cur
  ELSE LET jn == [joined EXCEPT ![s] = @ \ {roomId}]
           R == removeFromRoom(roomState, roomKeys, jn, roomId, s)
       IN [Cur EXCEPT
             !.jn = jn,
             !.keys = R.keys,
             !.rs = R.rs,
             !.out = R.out \o (IF R.removed THEN PeerLeft(jn, roomId, s) ELSE << >>)]

LeaveRoom(s, roomId) ==
  /\ Apply(leaveRoom(s, roomId))
  /\ UNCHANGED <<conn, nextSock, tick>>

\* mutant: the loop stops after the first room of the registry
DisconnectRooms_FirstOnly(todo, rs, keys, jn, s) ==
  IF todo = << >>
  THEN [rs |-> rs, keys |-> keys, out |-> << >>]
  ELSE LET roomId == Head(todo)
           st == rs[roomId]
           st1 == [st EXCEPT !.users = DropUser(@, s), !.videoReady = @ \ {s}]
           rs1 == MapSet(rs, roomId, st1)
       IN [rs |-> IF RoomIsEmpty(st1) THEN MapDelete(rs1, roomId) ELSE rs1,
           keys |-> IF RoomIsEmpty(st1) THEN KeysDelete(keys, roomId) ELSE keys,
           out |-> IF Len(st1.users) # Len(st.users)
                   THEN PeerLeft(jn, roomId, s) \o EmitRoom(rs1, jn, roomId)
                   ELSE << >>]

\* the disconnect handler's loop over roomState.entries() -> [rs, keys, out]
RECURSIVE DisconnectRooms(_, _, _, _, _)
DisconnectRooms(todo, rs, keys, jn, s) ==
  IF todo = << >>
  THEN [rs |-> rs, keys |-> keys, out |-> << >>]
  ELSE LET roomId == Head(todo)
           st == rs[roomId]
           st1 == [st EXCEPT !.users = DropUser(@, s), !.videoReady = @ \ {s}]
           rs1 == MapSet(rs, roomId, st1)
           out1 == IF Len(st1.users) # Len(st.users)
                   THEN PeerLeft(jn, roomId, s) \o EmitRoom(rs1, jn, roomId)
                   ELSE << >>
           rest == DisconnectRooms(Tail(todo),
                     IF RoomIsEmpty(st1) THEN MapDelete(rs1, roomId) ELSE rs1,
                     IF RoomIsEmpty(st1) THEN KeysDelete(keys, roomId) ELSE keys,
                     jn, s)
       IN [rs |-> rest.rs, keys |-> rest.keys, out |-> out1 \o rest.out]

\* socket.io has unsubscribed the closing connection from its rooms when
\* the disconnect handler runs
disconnect(s) ==
  LET jn == [joined EXCEPT ![s] = {}]
      R == DisconnectRooms(roomKeys, roomState, roomKeys, jn, s)
  IN [Cur EXCEPT !.jn = jn, !.keys = R.keys, !.rs = R.rs, !.out = R.out]

Disconnect(s) ==
  /\ conn' = conn \ {s}
  /\ Apply(disconnect(s))
  /\ UNCHANGED <<nextSock, tick>>

\* ------------------------------------------------------------------- bets
NoCancel == [creator |-> FALSE, target |-> FALSE]

\* the bet createBetOffer pushes; cancel and result are the fields the client
\* reads (b.cancel, the result of a settled bet), unset at creation
NewBet(id, me, target, inp) ==
  [id |-> id,
   status |-> "pending",
   title |-> IF inp.title = "" THEN "Bet" ELSE inp.title,
   creatorId |-> me.id,
   creatorName |-> me.username,
   targetId |-> target.id,
   targetName |-> target.username,
   creatorStake |-> inp.stake,
   targetStake |-> inp.stake,
   creatorPick |-> inp.pick,
   targetPick |-> Undefined,
   winnerName |-> "",
   cancel |-> NoCancel,
   result |-> << >>]

UserIndex(rs, roomId, id) ==
  IF roomId \in DOMAIN rs
  THEN FindIndex(rs[roomId].users, LAMBDA u : u.id = id) ELSE 0

\* createBetOffer: the guard on the two parties found in the room
OfferParties(me, target) == me # 0 /\ target # 0

createBetOffer(s, roomId, targetUserId, inp) ==
  LET me == UserIndex(roomState, roomId, s)
      target == UserIndex(roomState, roomId, targetUserId)
  IN IF ~OfferParties(me, target) THEN Cur
     ELSE LET st == roomState[roomId]
              bet == NewBet(nextBet, st.users[me], st.users[target], inp)
              rs == [roomState EXCEPT ![roomId].bets = Append(@, bet)]
          IN [Cur EXCEPT
                !.rs = rs,
                !.nb = nextBet + 1,
                !.out = EmitRoom(rs, joined, roomId) \o
                        << Msg(RoomSockets(joined, roomId),
                               <<bet.creatorName, "offered a bet to", bet.targetName>>) >>]

CreateBetOffer(s, roomId, targetUserId, inp) ==
  /\ Apply(createBetOffer(s, roomId, targetUserId, inp))
  /\ UNCHANGED <<conn, nextSock, tick>>

BetIndex(rs, roomId, betId) ==
  IF roomId \in DOMAIN rs
  THEN FindIndex(rs[roomId].bets, LAMBDA b : b.id = betId) ELSE 0

\* mutant: the changed bet is moved to the end of the sequence
SetBet_MoveLast(rs, roomId, i, bet) ==
  [rs EXCEPT ![roomId].bets =
     Append(SubSeq(@, 1, i - 1) \o SubSeq(@, i + 1, Len(@)), bet)]

SetBet(rs, roomId, i, bet) == [rs EXCEPT ![roomId].bets[i] = bet]

\* mutant: the status of the bet is not checked
AcceptStatusOk_Any(bet) == TRUE

\* mutant: only a cancelled bet is refused
AcceptStatusOk_NotCancelled(bet) == bet.status # "cancelled"

\* mutant: the accepting connection is not checked against the target
AcceptAuthorised_Anyone(bet, s) == TRUE

\* acceptBetOffer: its two guards
AcceptStatusOk(bet) == bet.status = "pending"
AcceptAuthorised(bet, s) == s = bet.targetId

\* mutant: the stake sent is stored even when it is zero
AcceptedBet_StakeAsSent(bet, inp) ==
  [bet EXCEPT !.status = "active",
              !.targetPick = IF inp.pick = "" THEN "ACCEPT" ELSE inp.pick,
              !.targetStake = inp.stake]

\* acceptBetOffer: the fields written on the bet
AcceptedBet(bet, inp) ==
  [bet EXCEPT !.status = "active",
              !.targetPick = IF inp.pick = "" THEN "ACCEPT" ELSE inp.pick,
              !.targetStake = IF inp.stake # 0 THEN inp.stake ELSE @]

acceptBetOffer(s, roomId, betId, inp) ==
  LET i == BetIndex(roomState, roomId, betId)
  IN IF i = 0 THEN Cur
     ELSE IF ~AcceptStatusOk(roomState[roomId].bets[i]) THEN Cur
     ELSE IF ~AcceptAuthorised(roomState[roomId].bets[i], s) THEN Cur
     ELSE LET bet == AcceptedBet(roomState[roomId].bets[i], inp)
              rs == SetBet(roomState, roomId, i, bet)
          IN [Cur EXCEPT
                !.rs = rs,
                !.out = EmitRoom(rs, joined, roomId) \o
                        << Msg(RoomSockets(joined, roomId),
                               <<bet.targetName, "accepted the bet!">>) >>]

AcceptBetOffer(s, roomId, betId, inp) ==
  /\ Apply(acceptBetOffer(s, roomId, betId, inp))
  /\ UNCHANGED <<conn, nextSock, tick>>

\* mutant: an offer is withdrawn whatever its status
CancelOfferStatusOk_Any(bet) == TRUE

\* mutant: the cancelling connection is not checked against the creator
CancelOfferAuthorised_Anyone(bet, s) == TRUE

\* cancelBetOffer: its two guards
CancelOfferStatusOk(bet) == bet.status = "pending"
CancelOfferAuthorised(bet, s) == s = bet.creatorId

cancelBetOffer(s, roomId, betId) ==
  LET i == BetIndex(roomState, roomId, betId)
  IN IF i = 0 THEN Cur
     ELSE IF ~CancelOfferStatusOk(roomState[roomId].bets[i]) THEN Cur
     ELSE IF ~CancelOfferAuthorised(roomState[roomId].bets[i], s) THEN Cur
     ELSE LET rs == [roomState EXCEPT ![roomId].bets[i].status = "cancelled"]
          IN [Cur EXCEPT !.rs = rs, !.out = EmitRoom(rs, joined, roomId)]

CancelBetOffer(s, roomId, betId) ==
  /\ Apply(cancelBetOffer(s, roomId, betId))
  /\ UNCHANGED <<conn, nextSock, tick>>

Terminal == {"cancelled", "settled"}
NonTerminal == {"pending", "active", "cancel_pending"}

\* requestCancelBet: the requester is the bet's creator or its target, by name
CancelRequester(bet, username) ==
  username = bet.creatorName \/ username = bet.targetName

\* requestCancelBet: the consent record with the requester's side added
CancelConsent(bet, username) ==
  IF username = bet.creatorName
  THEN [bet.cancel EXCEPT !.creator = TRUE]
  ELSE [bet.cancel EXCEPT !.target = TRUE]

\* requestCancelBet: the status once the consent is recorded
CancelStatus(status, cancel) ==
  IF status = "pending" THEN "cancelled"
  ELSE IF cancel.creator /\ cancel.target THEN "cancelled"
  ELSE "cancel_pending"

requestCancelBet(s, roomId, betId, username) ==
  LET i == BetIndex(roomState, roomId, betId)
  IN IF i = 0 THEN Cur
     ELSE IF roomState[roomId].bets[i].status \notin NonTerminal THEN Cur
     ELSE IF ~CancelRequester(roomState[roomId].bets[i], username) THEN Cur
     ELSE LET old == roomState[roomId].bets[i]
              c == CancelConsent(old, username)
              bet == [old EXCEPT !.cancel = c, !.status = CancelStatus(@, c)]
              rs == SetBet(roomState, roomId, i, bet)
          IN [Cur EXCEPT
                !.rs = rs,
                !.out = EmitRoom(rs, joined, roomId) \o
                        << Msg(RoomSockets(joined, roomId),
                               <<username, "asked to cancel", bet.status>>) >>]

RequestCancelBet(s, roomId, betId, username) ==
  /\ Apply(requestCancelBet(s, roomId, betId, username))
  /\ UNCHANGED <<conn, nextSock, tick>>

\* ------------------------------------------------------------- score feed
\* status strings as text, for toUpperCase / includes
StatusText(s) ==
  CASE s = "FT" -> <<"F","T">>
    [] s = "HT" -> <<"H","T">>
    [] s = "LIVE" -> <<"L","I","V","E">>
    [] s = "Final" -> <<"F","i","n","a","l">>
    [] s = "Closed" -> <<"C","l","o","s","e","d">>
    [] s = "Halftime" -> <<"H","a","l","f","t","i","m","e">>
    [] s = "AET" -> <<"A","E","T">>
    [] s = "PENS" -> <<"P","E","N","S">>
    [] s = "HALFTIME" -> <<"H","A","L","F","T","I","M","E">>
    [] s = "FINAL" -> <<"F","I","N","A","L">>
    [] s = "SCHEDULED" -> <<"S","C","H","E","D","U","L","E","D">>
    [] s = "in" -> <<"i","n">>
    [] s = "pre" -> <<"p","r","e">>
    [] s = "post" -> <<"p","o","s","t">>
    [] OTHER -> <<>>

LowerCase == <<"a","c","d","e","f","h","i","l","m","n","o","p","r","s","t">>
UpperCase == <<"A","C","D","E","F","H","I","L","M","N","O","P","R","S","T">>

UpperChar(c) ==
  IF \E i \in 1..Len(LowerCase) : LowerCase[i] = c
  THEN UpperCase[CHOOSE i \in 1..Len(LowerCase) : LowerCase[i] = c]
  ELSE c

ToUpper(text) == [i \in 1..Len(text) |-> UpperChar(text[i])]

Includes(text, token) ==
  \E k \in 0..(Len(text) - Len(token)) :
    \A i \in 1..Len(token) : text[k + i] = token[i]

\* normalizeStatus(detail, state): the status token of a game record
normalizeStatus(detail, state) ==
  LET d == ToUpper(StatusText(detail))
      s == ToUpper(StatusText(state))
  IN IF Includes(d, <<"F","U","L","L">>) \/ d = <<"F","T">>
          \/ Includes(d, <<"F","I","N","A","L">>) THEN "FT"
     ELSE IF Includes(d, <<"H","A","L","F">>) \/ d = <<"H","T">> THEN "HT"
     ELSE IF Includes(d, <<"A","E","T">>) THEN "AET"
     ELSE IF Includes(d, <<"P","E","N","S">>) THEN "PENS"
     ELSE IF Includes(d, <<"H","A","L","F">>) THEN "HALFTIME"
     ELSE IF Includes(d, <<"F","I","N","A","L">>) THEN "FINAL"
     ELSE IF s = <<"I","N">> THEN "LIVE"
     ELSE IF s = <<"P","R","E">> THEN "SCHEDULED"
     ELSE IF detail # "" THEN detail ELSE state

\* mutant: a status of CLOSED does not count as finished
isFinished_NoClosed(status) ==
  LET s == ToUpper(StatusText(status))
  IN \/ s = <<"F","T">>
     \/ Includes(s, <<"F","I","N","A","L">>)

\* mutant: a match in play counts as finished
isFinished_Live(status) ==
  LET s == ToUpper(StatusText(status))
  IN \/ s = <<"F","T">>
     \/ Includes(s, <<"F","I","N","A","L">>)
     \/ Includes(s, <<"L","I","V","E">>)

isFinished(status) ==
  LET s == ToUpper(StatusText(status))
  IN \/ s = <<"F","T">>
     \/ Includes(s, <<"F","I","N","A","L">>)
     \/ Includes(s, <<"C","L","O","S","E","D">>)

\* Number(x) for the score values the feed carries: <<n>>, or <<>> for NaN
NumberOf(x) ==
  CASE x = "0" -> <<0>> [] x = "1" -> <<1>> [] x = "2" -> <<2>>
    [] x = "" -> <<0>> [] x = Null -> <<0>>
    [] OTHER -> << >>

\* safeNum: the number when Number(x) is finite, else null (<< >>)
safeNum(x) ==
  LET n == NumberOf(x)
  IN IF n # << >> THEN n ELSE << >>

HomeTeam == "Lions"
AwayTeam == "Tigers"
\* mutant: every pick names the home team
WinPick_Home(team) == "Lions win"

WinPick(team) == IF team = HomeTeam THEN "Lions win" ELSE "Tigers win"

\* what the external scoreboard may report for the room's match: the status
\* detail and state of the competition and the two competitors' scores
RawEvents ==
  { [detail |-> "", state |-> "in", home |-> "1", away |-> "0"],
    [detail |-> "Halftime", state |-> "in", home |-> "0", away |-> "0"],
    [detail |-> "FT", state |-> "post", home |-> Undefined, away |-> "1"],
    [detail |-> "Final", state |-> "post", home |-> "2", away |-> "x"],
    [detail |-> "Final", state |-> "post", home |-> "2", away |-> "1"],
    [detail |-> "Final", state |-> "post", home |-> "0", away |-> "2"],
    [detail |-> "Closed", state |-> "post", home |-> "1", away |-> "1"] }

\* mapEspnEventToGame: the normalized record of a raw event
GameRecord(e) ==
  [kind |-> "record", status |-> normalizeStatus(e.detail, e.state),
   homeScore |-> safeNum(e.home), awayScore |-> safeNum(e.away)]

LookupResults ==
  { [kind |-> "fail"], [kind |-> "none"] } \cup { GameRecord(e) : e \in RawEvents }

\* ------------------------------------------------------ settlement loop
\* outcome computation: <<pick>>, or << >> when no outcome can be computed
Outcome(rec) ==
  IF rec.homeScore = << >> \/ rec.awayScore = << >> THEN << >>
  ELSE IF rec.awayScore[1] > rec.homeScore[1] THEN <<WinPick(AwayTeam)>>
  ELSE IF rec.homeScore[1] > rec.awayScore[1] THEN <<WinPick(HomeTeam)>>
  ELSE <<"draw">>

WinnerName(bet, pick) ==
  LET c == bet.creatorPick = pick
      g == bet.targetPick = pick
  IN IF c /\ ~g THEN bet.creatorName
     ELSE IF g /\ ~c THEN bet.targetName
     ELSE IF c /\ g THEN "Both right" ELSE "Both wrong"

\* whether a lookup result lets the room's active bets be settled
Settleable(res) ==
  /\ res.kind = "record"
  /\ isFinished(res.status)
  /\ Outcome(res) # << >>

SettledBet(bet, rec) ==
  [bet EXCEPT !.status = "settled",
              !.winnerName = WinnerName(bet, Outcome(rec)[1]),
              !.result = << [status |-> rec.status, home |-> rec.homeScore[1],
                             away |-> rec.awayScore[1], pick |-> Outcome(rec)[1]] >>]

\* mutant: every bet that is not yet settled or cancelled is settled
SettleRoom_AllOpen(st, rec) ==
  [st EXCEPT !.bets = [i \in 1..Len(@) |->
     IF @[i].status \in {"pending", "active", "cancel_pending"}
     THEN SettledBet(@[i], rec) ELSE @[i]]]

SettleRoom(st, rec) ==
  [st EXCEPT !.bets = [i \in 1..Len(@) |->
     IF @[i].status = "active" THEN SettledBet(@[i], rec) ELSE @[i]]]

\* a room the loop asks the score feed about
NeedsLookup(rs, roomId) ==
  /\ roomId \in DOMAIN rs
  /\ \E i \in 1..Len(rs[roomId].bets) : rs[roomId].bets[i].status = "active"
  /\ rs[roomId].match # Null

\* mutant: the rooms after the one looked up are not visited
ScanRooms_DropRest(queue, rs) ==
  LET I == {i \in 1..Len(queue) : NeedsLookup(rs, queue[i])}
  IN IF I = {} THEN IdleTick
     ELSE [room |-> queue[CHOOSE i \in I : \A j \in I : i <= j], queue |-> << >>]

\* the loop runs on, without waiting, up to the next room it must look up
RECURSIVE ScanRooms(_, _)
ScanRooms(queue, rs) ==
  IF queue = << >> THEN IdleTick
  ELSE IF NeedsLookup(rs, Head(queue))
       THEN [room |-> Head(queue), queue |-> Tail(queue)]
       ELSE ScanRooms(Tail(queue), rs)

\* the interval fires: the loop walks a snapshot of the room keys
TickStart ==
  /\ tick.room = ""
  /\ tick' = ScanRooms(roomKeys, roomState)
  /\ emitted' = << >>
  /\ UNCHANGED <<conn, nextSock, joined, roomKeys, roomState, nextBet, watch, client,
                 games>>

\* the result of the score lookup for the room being processed; a room that
\* has no match when the result arrives (deleted and created again meanwhile)
\* is skipped
settleLookup(roomId, res) ==
  IF roomId \in DOMAIN roomState /\ roomState[roomId].match # Null /\ Settleable(res)
  THEN LET rs == [roomState EXCEPT ![roomId] = SettleRoom(@, res)]
       IN [Cur EXCEPT !.rs = rs, !.out = EmitRoom(rs, joined, roomId)]
  ELSE Cur

\* the score lookup of the room being processed returns
TickLookup(res) ==
  /\ tick.room # ""
  /\ Apply(settleLookup(tick.room, res))
  /\ tick' = ScanRooms(tick.queue, settleLookup(tick.room, res).rs)
  /\ UNCHANGED <<conn, nextSock>>

\* ------------------------------------------------------- chat and media
SignalPayloads == {"offer", ""}
ChatTexts == {"hi", ""}

\* chatMessage: relayed to the room as it is
chatMessage(s, roomId, user, text) ==
  IF Falsy(roomId) \/ Falsy(text) THEN Cur
  ELSE [Cur EXCEPT !.out =
          << [ev |-> "message", to |-> RoomSockets(joined, roomId),
              data |-> [user |-> user, text |-> text]] >>]

ChatMessage(s, roomId, user, text) ==
  /\ Apply(chatMessage(s, roomId, user, text))
  /\ UNCHANGED <<conn, nextSock, tick>>

\* the "to" of a signal: a connection handle or a room key; both unset is an
\* absent destination
ToHandle(h) == [handle |-> h, key |-> ""]
ToKey(k) == [handle |-> 0, key |-> k]
NoTarget == ToKey("")

\* mutant: a signal goes to every connection
SignalTargets_All(to) == conn

\* io.to(to): every connection is subscribed to the socket.io room named by
\* its own handle, so a handle addresses that connection and a room key
\* addresses the connections subscribed to the room
SignalTargets(to) ==
  IF to.handle # 0 THEN {to.handle} \cap conn ELSE RoomSockets(joined, to.key)

\* signal: pass-through, the server sets "from"
signal(s, to, data) ==
  IF to = NoTarget \/ Falsy(data) THEN Cur
  ELSE [Cur EXCEPT !.out =
          << [ev |-> "signal", to |-> SignalTargets(to),
              data |-> [from |-> s, data |-> data]] >>]

\* the "from" a client may put in its signal event: any handle, its own, a
\* peer's or nobody's
ClaimedFrom == 1..MaxSockets

\* the signal event as a client sends it
SignalEvent(to, from, data) == [to |-> to, from |-> from, data |-> data]

\* mutant: the relayed tag is the one the client sent
signalEvent_TrustFrom(s, msg) ==
  IF msg.to = NoTarget \/ Falsy(msg.data) THEN Cur
  ELSE [Cur EXCEPT !.out =
          << [ev |-> "signal", to |-> SignalTargets(msg.to),
              data |-> [from |-> msg.from, data |-> msg.data]] >>]

\* socket.on("signal", ({ to, data }) => ...): the handler takes the
\* destination and the payload out of the event and nothing else
signalEvent(s, msg) == signal(s, msg.to, msg.data)

Signal(s, to, data) ==
  /\ \E from \in ClaimedFrom : Apply(signalEvent(s, SignalEvent(to, from, data)))
  /\ UNCHANGED <<conn, nextSock, tick>>

\* mutant: every room relays media
VideoAllowed_Always(st) == TRUE

\* video-ready: the guard on the room's flag
VideoAllowed(st) == st.videoAllowed

videoReady(s, roomId) ==
  IF roomId \notin DOMAIN roomState THEN Cur
  ELSE IF ~VideoAllowed(roomState[roomId]) THEN Cur
  ELSE LET rs == [roomState EXCEPT ![roomId].videoReady = @ \cup {s}]
       IN [Cur EXCEPT
             !.rs = rs,
             !.out = << [ev |-> "video-ready", to |-> RoomSockets(joined, roomId) \ {s},
                         data |-> s] >>
                     \o EmitRoom(rs, joined, roomId)]

VideoReady(s, roomId) ==
  /\ Apply(videoReady(s, roomId))
  /\ UNCHANGED <<conn, nextSock, tick>>

\* ------------------------------------------------------- peer initiator
\* display names as UTF-16 code units
NameText(n) ==
  CASE n = "alice" -> <<97, 108, 105, 99, 101>>
    [] n = "al" -> <<97, 108>>
    [] n = "bob" -> <<98, 111, 98>>
    [] n = "Bob" -> <<66, 111, 98>>
    [] n = "carol" -> <<99, 97, 114, 111, 108>>
    [] n = " " -> <<32>>
    [] OTHER -> << >>

\* String(n) of a number: its decimal digits as code units
RECURSIVE DigitsOf(_)
DigitsOf(n) ==
  IF n < 10 THEN <<48 + n>> ELSE Append(DigitsOf(n \div 10), 48 + (n % 10))

\* x < y on strings: by code unit, a proper prefix first
RECURSIVE StrLess(_, _)
StrLess(x, y) ==
  IF y = << >> THEN FALSE
  ELSE IF x = << >> THEN TRUE
  ELSE IF Head(x) # Head(y) THEN Head(x) < Head(y)
  ELSE StrLess(Tail(x), Tail(y))

\* mutant: connection handles compared as numbers
isInitiator_Numeric(a, b) == a < b

\* server side, on connection handles
isInitiator(a, b) == StrLess(DigitsOf(a), DigitsOf(b))

\* the pair of video-peer events for a newcomer s and a ready peer otherId
VideoPeer(s, otherId) ==
  << [ev |-> "video-peer", to |-> {s},
      data |-> [peerId |-> otherId, initiator |-> isInitiator(s, otherId)]],
     [ev |-> "video-peer", to |-> {otherId},
      data |-> [peerId |-> s, initiator |-> isInitiator(otherId, s)]] >>

\* client side, on display names
shouldInitiate(username, peerUsername) ==
  StrLess(NameText(username), NameText(peerUsername))

\* createPeer: << >> when no peer is made, else the peer's initiator flag
createPeer(username, peerUsername) ==
  IF Falsy(peerUsername) THEN << >>
  ELSE IF peerUsername = username THEN << >>
  ELSE << shouldInitiate(username, peerUsername) >>

\* ---------------------------------------------------------------- client
ClientRoom == "private:X"

\* mutant: the buffer is dropped without being fed to the new peer
NewPeer_NoReplay(c, peerUsername) ==
  [c EXCEPT !.peers = @ \cup {peerUsername},
            !.applied[peerUsername] = << >>,
            !.pending[peerUsername] = << >>,
            !.made = Append(@, peerUsername)]

\* new Peer(...) and what follows it in createPeer: the peer is put in the
\* table and is fed the signals buffered for that name, and the buffer is
\* dropped; made lists the peers the running handler has constructed
NewPeer(c, peerUsername) ==
  [c EXCEPT !.peers = @ \cup {peerUsername},
            !.applied[peerUsername] = c.pending[peerUsername],
            !.pending[peerUsername] = << >>,
            !.made = Append(@, peerUsername)]

\* mutant: the table is not consulted before a peer is constructed
MakePeer_Again(c, peerUsername) ==
  IF createPeer(Me, peerUsername) = << >> THEN c
  ELSE NewPeer(c, peerUsername)

\* createPeer on the client's peer table: nothing for no name, for the
\* client's own name or for a name that has a peer; else a new peer
MakePeer(c, peerUsername) ==
  IF createPeer(Me, peerUsername) = << >> THEN c
  ELSE IF peerUsername \in c.peers THEN c
  ELSE NewPeer(c, peerUsername)

\* forEach((name) => createPeer(name)) over a set of names
RECURSIVE MakePeers(_, _)
MakePeers(c, names) ==
  IF names = {} THEN c
  ELSE LET n == CHOOSE x \in names : TRUE
       IN MakePeers(MakePeer(c, n), names \ {n})

\* startVideo: the listed participants that the last snapshot shows ready
ReadyListed(c) == {n \in c.users : ~Falsy(n) /\ n # Me /\ n \in c.ready}

\* startVideo; granted: whether the browser gave the camera and microphone
startVideo(c, granted) ==
  IF ~StartsWith(KeyText(ClientRoom), PrivateMarker) THEN c
  ELSE IF ~granted THEN c
  ELSE MakePeers([c EXCEPT !.video = TRUE], ReadyListed(c))

stopVideo(c) ==
  [c EXCEPT !.video = FALSE,
            !.peers = {},
            !.pending = [n \in Names |-> << >>],
            !.applied = [n \in Names |-> << >>]]

onRoomState(c, users, ready) == [c EXCEPT !.users = users, !.ready = ready]

onVideoReady(c, peerName) ==
  IF Falsy(peerName) THEN c
  ELSE IF c.video THEN MakePeer(c, peerName) ELSE c

\* the peer-joined listener of the client that addresses peers by handle
onPeerJoined(c, peerId) ==
  IF c.video THEN MakePeer(c, peerId) ELSE c

\* signals that arrive before the video is started are buffered per sender
onSignal(c, fromUsername, data) ==
  IF Falsy(fromUsername) \/ Falsy(data) THEN c
  ELSE IF ~c.video
       THEN [c EXCEPT !.pending[fromUsername] = Append(@, data)]
       ELSE LET c1 == MakePeer(c, fromUsername)
            IN IF fromUsername \in c1.peers
               THEN [c1 EXCEPT !.applied[fromUsername] = Append(@, data)]
               ELSE c1

\* the client as a handler finds it: it has constructed no peer yet
Entered(c) == [c EXCEPT !.made = << >>]

\* a client handler ran: the server side is not involved; heard collects the
\* names whose video-ready or signal the client has received
ClientStep(c, ev, from) ==
  /\ client' = [c EXCEPT !.last = [ev |-> ev, from |-> from],
                         !.heard = IF ev \in {"video-ready", "signal"} /\ ~Falsy(from)
                                   THEN @ \cup {from} ELSE @]
  /\ UNCHANGED <<conn, nextSock, joined, roomKeys, roomState, nextBet, tick,
                 emitted, watch, games>>

StartVideo(granted) == ClientStep(startVideo(Entered(client), granted), "start", "")
StopVideo == ClientStep(stopVideo(Entered(client)), "stop", "")
OnRoomState(users, ready) ==
  ClientStep(onRoomState(Entered(client), users, ready), "room-state", "")
OnVideoReady(peerName) ==
  ClientStep(onVideoReady(Entered(client), peerName), "video-ready", peerName)
OnPeerJoined(peerId) ==
  ClientStep(onPeerJoined(Entered(client), peerId), "peer-joined", peerId)
OnSignal(fromUsername, data) ==
  ClientStep(onSignal(Entered(client), fromUsername, data), "signal", fromUsername)

\* peer.on("close"): the peer is taken out of the table
PeerClosed(peerUsername) ==
  /\ peerUsername \in client.peers
  /\ ClientStep([Entered(client) EXCEPT !.peers = @ \ {peerUsername},
                                        !.applied[peerUsername] = << >>],
                "close", peerUsername)

\* ------------------------------------------------------------ games query
\* yyyymmddFromISO: null (<< >>) unless the date has its three parts
yyyymmddFromISO(isoDate) ==
  CASE isoDate = "2026-01-02" -> <<"20260102">>
    [] OTHER -> << >>

\* the sports of the scoreboard map other than soccer
SportMap == {"nba", "nfl", "nhl", "mlb"}

\* the label of a sport in the scoreboard map
SportLabel(sport) ==
  CASE sport = "nba" -> "NBA"
    [] sport = "nfl" -> "NFL"
    [] sport = "nhl" -> "NHL"
    [] sport = "mlb" -> "MLB"
    [] OTHER -> ""

\* SOCCER_CATALOG.find(...)?.league || code
LeagueLabel(code) ==
  CASE code = "uefa.champions" -> "UEFA Champions League"
    [] code = "eng.1" -> "Premier League"
    [] code = "esp.1" -> "LaLiga"
    [] OTHER -> code

\* mapEspnEventToGame: the record of a scoreboard event (id, start, status,
\* scores and league; names, country and penalties are carried along unread)
mapEspnEventToGame(e, sportKey, leagueLabel, leagueCode) ==
  [id |-> IF Falsy(e.id) THEN "" ELSE e.id,
   sport |-> sportKey,
   startTime |-> e.date,
   status |-> normalizeStatus(e.detail, e.state),
   homeScore |-> safeNum(e.home),
   awayScore |-> safeNum(e.away),
   league |-> leagueLabel,
   leagueCode |-> leagueCode]

\* fetchSoccerLeague / fetchScoreboardNonSoccer as a settled promise: rejected
\* on a bad date or a failed request, else fulfilled with the events' records
fetchScoreboard(feed, key, isoDate, sportKey, leagueLabel, leagueCode) ==
  IF yyyymmddFromISO(isoDate) = << >> \/ ~feed[key].ok
  THEN [status |-> "rejected", value |-> << >>]
  ELSE [status |-> "fulfilled",
        value |-> [i \in 1..Len(feed[key].events) |->
                     mapEspnEventToGame(feed[key].events[i], sportKey, leagueLabel,
                                        leagueCode)]]

\* the loop over the settled tasks: the values of the fulfilled ones, in the
\* order of the league codes
RECURSIVE GatherFulfilled(_)
GatherFulfilled(settled) ==
  IF settled = << >> THEN << >>
  ELSE (IF Head(settled).status = "fulfilled" THEN Head(settled).value ELSE << >>)
       \o GatherFulfilled(Tail(settled))

\* the dedupe loop: a record with no id or with an id already seen is skipped
RECURSIVE Dedupe(_, _)
Dedupe(all, seen) ==
  IF all = << >> THEN << >>
  ELSE IF Head(all).id = "" \/ Head(all).id \in seen THEN Dedupe(Tail(all), seen)
  ELSE <<Head(all)>> \o Dedupe(Tail(all), seen \cup {Head(all).id})

\* Array.prototype.sort by start time (stable): g goes behind the records
\* that do not start later
RECURSIVE InsertByStart(_, _)
InsertByStart(sorted, g) ==
  IF sorted = << >> THEN <<g>>
  ELSE IF Head(sorted).startTime <= g.startTime
       THEN <<Head(sorted)>> \o InsertByStart(Tail(sorted), g)
       ELSE <<g>> \o sorted

RECURSIVE SortByStart(_)
SortByStart(list) ==
  IF list = << >> THEN << >>
  ELSE InsertByStart(SortByStart(SubSeq(list, 1, Len(list) - 1)), list[Len(list)])

\* the league codes of a soccer query
QueryCodes(leagueCode) == IF leagueCode # "" THEN <<leagueCode>> ELSE MixCodes

SoccerTasks(codes, isoDate, feed) ==
  [i \in 1..Len(codes) |->
     fetchScoreboard(feed, codes[i], isoDate, "soccer", LeagueLabel(codes[i]), codes[i])]

GamesError == [code |-> 500, games |-> << >>]

\* mutant: the tasks are awaited together, so one rejection rejects them all
soccerGames_FailFast(codes, isoDate, feed) ==
  LET settled == SoccerTasks(codes, isoDate, feed)
  IN IF \E i \in 1..Len(settled) : settled[i].status = "rejected"
     THEN GamesError
     ELSE [code |-> 200,
           games |-> SortByStart(Dedupe(GatherFulfilled(settled), {}))]

\* the soccer branch: Promise.allSettled over the leagues
soccerGames(codes, isoDate, feed) ==
  [code |-> 200,
   games |-> SortByStart(Dedupe(GatherFulfilled(SoccerTasks(codes, isoDate, feed)), {}))]

\* the scores of a game that has not started are blanked
Cleaned(g) ==
  LET st == ToUpper(StatusText(g.status))
  IN IF \/ Includes(st, <<"S","C","H","E","D","U","L","E","D">>)
        \/ Includes(st, <<"P","R","E">>)
        \/ Includes(st, <<"A","M">>)
        \/ Includes(st, <<"P","M">>)
     THEN [g EXCEPT !.homeScore = << >>, !.awayScore = << >>]
     ELSE g

\* GET /api/games
getGames(req, feed) ==
  LET sport == IF Falsy(req.sport) THEN "soccer" ELSE req.sport
  IN IF sport = "soccer" THEN soccerGames(QueryCodes(req.leagueCode), req.date, feed)
     ELSE IF sport \notin SportMap THEN [code |-> 200, games |-> << >>]
     ELSE LET r == fetchScoreboard(feed, sport, req.date, sport, SportLabel(sport), "")
          IN IF r.status = "rejected" THEN GamesError
             ELSE [code |-> 200,
                   games |-> SortByStart([i \in 1..Len(r.value) |-> Cleaned(r.value[i])])]

\* the request is served
GetGames ==
  /\ games.resp = NoResponse
  /\ games' = [games EXCEPT !.resp = getGames(games.req, games.feed)]
  /\ UNCHANGED <<conn, nextSock, joined, roomKeys, roomState, nextBet, tick, emitted,
                 watch, client>>

\* ------------------------------------------------------------------- Next
\* the display name a client entered before joining; App.js keeps it for the
\* whole session of a connection
ClientName(s) == IF s = 1 THEN "alice" ELSE "bob"

\* every handler, driven by the open connections over the given room keys
Step(rooms, maxSockets, maxBets) ==
  \/ nextSock <= maxSockets /\ Connect
  \/ \E s \in conn, r \in rooms \cup {""}, m \in Descriptors \cup {Null} :
       JoinRoom(s, r, IF r = "" THEN "" ELSE ClientName(s), m)
  \/ \E s \in conn, r \in rooms \cup {""} : LeaveRoom(s, r)
  \/ \E s \in conn : Disconnect(s)
  \/ \E s \in conn, r \in rooms, g \in 1..maxSockets, inp \in OfferInputs :
       nextBet <= maxBets /\ CreateBetOffer(s, r, g, inp)
  \/ \E s \in conn, r \in rooms, b \in 1..maxBets, inp \in AcceptInputs :
       AcceptBetOffer(s, r, b, inp)
  \/ \E s \in conn, r \in rooms, b \in 1..maxBets : CancelBetOffer(s, r, b)
  \/ \E s \in conn, r \in rooms, b \in 1..maxBets :
       RequestCancelBet(s, r, b, ClientName(s))
  \/ TickStart
  \/ \E res \in LookupResults : TickLookup(res)

BetRooms == {"private:X"}

Next == Step(BetRooms, MaxSockets, MaxBets)

Spec == Init /\ [][Next]_vars

\* ---------------------------------------------------- chat and media runs
MediaSockets == 2
MediaRooms == {"public:1", "private:X"}

\* as Init, with the emissions of every step recorded
InitMedia ==
  /\ conn = {}
  /\ nextSock = 1
  /\ joined = << >>
  /\ roomKeys = << >>
  /\ roomState = << >>
  /\ nextBet = 1
  /\ tick = IdleTick
  /\ emitted = << >>
  /\ watch = TRUE
  /\ client = ClientInit
  /\ games = GamesIdle

NextMedia ==
  \/ nextSock <= MediaSockets /\ Connect
  \/ \E s \in conn, r \in MediaRooms \cup {""} :
       \E n \in {ClientName(s), " "} : JoinRoom(s, r, n, Null)
  \/ \E s \in conn, r \in MediaRooms : LeaveRoom(s, r)
  \/ \E s \in conn : Disconnect(s)
  \/ \E s \in conn, r \in MediaRooms \cup {""}, t \in ChatTexts :
       ChatMessage(s, r, ClientName(s), t)
  \/ \E s \in conn, h \in 1..MediaSockets, d \in SignalPayloads :
       Signal(s, ToHandle(h), d)
  \/ \E s \in conn, r \in MediaRooms \cup {""}, d \in SignalPayloads :
       Signal(s, ToKey(r), d)
  \/ \E s \in conn, r \in MediaRooms : VideoReady(s, r)

SpecMedia == InitMedia /\ [][NextMedia]_vars

\* ------------------------------------------------------ settlement runs
\* two rooms with a match each and two bets, offered to the other connection
SettleSockets == 2
SettleBets == 2
SettleRooms == {"public:1", "private:X"}
SettleOffer == [title |-> "Derby", stake |-> 100, pick |-> "Lions win"]
SettleAccept == [pick |-> "Tigers win", stake |-> 50]
SettleResults ==
  { [kind |-> "fail"], [kind |-> "none"] } \cup
  { GameRecord(e) : e \in {x \in RawEvents : x.home \in {"1", "2"}} }

NextSettle ==
  \/ nextSock <= SettleSockets /\ Connect
  \/ \E s \in conn, r \in SettleRooms, m \in Matches :
       JoinRoom(s, r, ClientName(s), m)
  \/ \E s \in conn, r \in SettleRooms : LeaveRoom(s, r)
  \/ \E s \in conn : Disconnect(s)
  \/ \E s \in conn, r \in SettleRooms, g \in 1..SettleSockets :
       g # s /\ nextBet <= SettleBets /\ CreateBetOffer(s, r, g, SettleOffer)
  \/ \E s \in conn, r \in SettleRooms, b \in 1..SettleBets :
       AcceptBetOffer(s, r, b, SettleAccept)
  \/ \E s \in conn, r \in SettleRooms, b \in 1..SettleBets : CancelBetOffer(s, r, b)
  \/ \E s \in conn, r \in SettleRooms, b \in 1..SettleBets :
       RequestCancelBet(s, r, b, ClientName(s))
  \/ TickStart
  \/ \E res \in SettleResults : TickLookup(res)

SpecSettle == Init /\ [][NextSettle]_vars

\* as the settlement runs, with joins of the public room that carry no match
NextFrame ==
  \/ NextSettle
  \/ \E s \in conn : JoinRoom(s, "public:1", ClientName(s), Null)

SpecFrame == Init /\ [][NextFrame]_vars

\* ---------------------------------------------------------- fair runs
\* one room and one bet; a join may carry no match; the interval keeps
\* firing and every lookup that was started returns
NextLive ==
  \/ nextSock <= SettleSockets /\ Connect
  \/ \E s \in conn, m \in Matches \cup {Null} :
       JoinRoom(s, "private:X", ClientName(s), m)
  \/ \E s \in conn : LeaveRoom(s, "private:X")
  \/ \E s \in conn : Disconnect(s)
  \/ \E s \in conn, g \in 1..SettleSockets :
       g # s /\ nextBet <= MaxBets /\ CreateBetOffer(s, "private:X", g, SettleOffer)
  \/ \E s \in conn, b \in 1..MaxBets : AcceptBetOffer(s, "private:X", b, SettleAccept)
  \/ \E s \in conn, b \in 1..MaxBets : CancelBetOffer(s, "private:X", b)
  \/ \E s \in conn, b \in 1..MaxBets :
       RequestCancelBet(s, "private:X", b, ClientName(s))
  \/ TickStart
  \/ \E res \in SettleResults : TickLookup(res)

SpecLive ==
  /\ Init
  /\ [][NextLive]_vars
  /\ WF_vars(TickStart)
  /\ WF_vars(\E res \in SettleResults : TickLookup(res))

\* -------------------------------------------------------- reconnect runs
\* one media room; connections 2 and 3 are the same participant, bob, on an
\* old and a new connection, and a connection may close at any time
NextReconnect ==
  \/ nextSock <= MaxSockets /\ Connect
  \/ \E s \in conn : JoinRoom(s, "private:X", ClientName(s), Null)
  \/ \E s \in conn : LeaveRoom(s, "private:X")
  \/ \E s \in conn : VideoReady(s, "private:X")
  \/ \E s \in conn : Disconnect(s)

SpecReconnect == InitMedia /\ [][NextReconnect]_vars

\* ------------------------------------------------------------ query runs
\* the events a scoreboard may carry: a finished game, a game not started,
\* and an event without an id
FeedEvents ==
  [g1 |-> [id |-> "g1", date |-> 2, detail |-> "Final", state |-> "post",
           home |-> "2", away |-> "1"],
   g2 |-> [id |-> "g2", date |-> 1, detail |-> "", state |-> "pre",
           home |-> "0", away |-> "0"],
   anon |-> [id |-> Undefined, date |-> 1, detail |-> "", state |-> "in",
             home |-> "1", away |-> "0"]]

\* what a scoreboard request may return
Scoreboards ==
  {FeedFailure} \cup
  { [ok |-> TRUE, events |-> ev] :
      ev \in { << >>, <<FeedEvents.g1>>, <<FeedEvents.anon, FeedEvents.g2>>,
               <<FeedEvents.g2, FeedEvents.g1>> } }

GamesRequests ==
  [sport : {"", "soccer", "nba", "chess"},
   leagueCode : {"", "eng.1"},
   date : {"2026-01-02", ""}]

\* a request arrives and the feed is in some condition
InitGames ==
  /\ conn = {}
  /\ nextSock = 1
  /\ joined = << >>
  /\ roomKeys = << >>
  /\ roomState = << >>
  /\ nextBet = 1
  /\ tick = IdleTick
  /\ emitted = << >>
  /\ watch = FALSE
  /\ client = ClientInit
  /\ games \in [req : GamesRequests, feed : [FeedKeys -> Scoreboards], resp : {NoResponse}]

NextGames == GetGames

SpecGames == InitGames /\ [][NextGames]_vars

\* ----------------------------------------------------------- client runs
MaxSignals == 2

\* the signals the client holds, buffered or fed to a peer
RECURSIVE Held(_, _)
Held(c, names) ==
  IF names = {} THEN 0
  ELSE LET n == CHOOSE x \in names : TRUE
       IN Len(c.pending[n]) + Len(c.applied[n]) + Held(c, names \ {n})

\* the participant lists a snapshot may show the client
UserViews == {{"alice", "bob"}, {"alice", "bob", "carol"}}

\* the events a client may be handed, in any order
NextClient ==
  \/ \E granted \in BOOLEAN : StartVideo(granted)
  \/ StopVideo
  \/ \E users \in UserViews, ready \in SUBSET Names : OnRoomState(users, ready)
  \/ \E n \in Names \cup {""} : OnVideoReady(n)
  \/ \E n \in Names : OnPeerJoined(n)
  \/ \E n \in Names \cup {""}, d \in SignalData \cup {""} :
       /\ Held(client, Names) < MaxSignals
       /\ OnSignal(n, d)
  \/ \E n \in Names : PeerClosed(n)

SpecClient == Init /\ [][NextClient]_vars

\* =================================================================== claims
Rooms == DOMAIN roomState
BetsOf(r) == roomState[r].bets
UserIds(st) == {st.users[i].id : i \in 1..Len(st.users)}
UserNames(st) == {st.users[i].username : i \in 1..Len(st.users)}

\* bet i of room r is one and the same bet before and after the step
SameBet(r, i) ==
  /\ r \in DOMAIN roomState /\ r \in DOMAIN roomState'
  /\ i <= Len(roomState[r].bets) /\ i <= Len(roomState'[r].bets)
  /\ roomState[r].bets[i].id = roomState'[r].bets[i].id

Edges ==
  { <<"pending", "active">>, <<"pending", "cancelled">>,
    <<"active", "cancel_pending">>, <<"cancel_pending", "cancelled">>,
    <<"active", "settled">> }

\* C1: in every step a bet keeps its status or moves along one edge of the
\* state machine (pending->active, pending->cancelled, active->cancel_pending,
\* cancel_pending->cancelled, active->settled), and a cancelled or settled
\* bet is left as it is, in every field
C1_BetStateMachine ==
  [][\A r \in RoomIds, i \in 1..MaxBets :
       SameBet(r, i) =>
         LET b == roomState[r].bets[i]
             c == roomState'[r].bets[i]
         IN /\ b.status # c.status => <<b.status, c.status>> \in Edges
            /\ b.status \in Terminal => c = b]_vars

\* C1 witness: a bet that went pending -> active -> cancel_pending -> cancelled
C1_Witness ==
  \E r \in Rooms : \E i \in 1..Len(BetsOf(r)) :
    /\ BetsOf(r)[i].status = "cancelled"
    /\ BetsOf(r)[i].cancel.creator /\ BetsOf(r)[i].cancel.target
    /\ BetsOf(r)[i].targetPick # Undefined

\* C2: acceptBetOffer from a connection that is not the bet's target changes
\* nothing in the room, whatever the bet's status; and a bet becomes active
\* only from pending, by the accept of its target's connection
C2_AcceptOnlyByTarget ==
  /\ [](\A s \in conn, r \in Rooms, inp \in AcceptInputs :
          \A i \in 1..Len(BetsOf(r)) :
            s # BetsOf(r)[i].targetId =>
              acceptBetOffer(s, r, BetsOf(r)[i].id, inp).rs = roomState)
  /\ [][\A r \in RoomIds, i \in 1..MaxBets :
          (SameBet(r, i) /\ roomState[r].bets[i].status # "active"
                         /\ roomState'[r].bets[i].status = "active") =>
            LET b == roomState[r].bets[i]
            IN /\ b.status = "pending"
               /\ b.targetId \in conn
               /\ \E inp \in AcceptInputs :
                    roomState' = acceptBetOffer(b.targetId, r, b.id, inp).rs]_vars

\* C2 witness: an accepted bet in a room that also holds a third participant
C2_Witness ==
  \E r \in Rooms : \E i \in 1..Len(BetsOf(r)) :
    /\ BetsOf(r)[i].status = "active"
    /\ BetsOf(r)[i].creatorId # BetsOf(r)[i].targetId
    /\ \E s \in UserIds(roomState[r]) \cap conn :
         s \notin {BetsOf(r)[i].creatorId, BetsOf(r)[i].targetId}

RequestNames == {"alice", "bob", "carol"}

\* the side of a bet a requester stands on
OnlyCreator(b, n) == n = b.creatorName /\ n # b.targetName
OnlyTarget(b, n) == n = b.targetName /\ n # b.creatorName

C4_PendingCancelEitherSide ==
  \A s \in conn, r \in Rooms : \A i \in 1..Len(BetsOf(r)) :
    LET b == BetsOf(r)[i]
        byOffer == cancelBetOffer(s, r, b.id).rs[r].bets[i]
        byRequest == requestCancelBet(s, r, b.id, ClientName(s)).rs[r].bets[i]
    IN (b.status = "pending" /\ b.creatorId # b.targetId /\ b.creatorName # b.targetName) =>
         /\ s \in {b.creatorId, b.targetId} => byOffer.status = "cancelled"
         /\ s \notin {b.creatorId, b.targetId} => byOffer = b
         /\ CancelRequester(b, ClientName(s)) => byRequest.status = "cancelled"
         /\ ~CancelRequester(b, ClientName(s)) => byRequest = b

\* record statuses, and raw status details, of a match that is over
FinishedStatuses == {"FT", "Closed"}
FinishedDetails == {"FT", "Final", "Closed"}
NumericText == {"0", "1", "2"}

TwoPartyBets(st) ==
  \A i \in 1..Len(st.bets) : st.bets[i].creatorId # st.bets[i].targetId

\* C6 (as claimed): a room leaves the registry only when it holds no bet that
\* is pending, active or cancel_pending (and none of its participants is
\* connected)
C6_RoomDeletedOnlyWhenResolved ==
  [][\A r \in RoomIds :
       (r \in DOMAIN roomState /\ r \notin DOMAIN roomState'
          /\ TwoPartyBets(roomState[r])) =>
         /\ \A s \in UserIds(roomState[r]) : s \notin conn' \/ r \notin joined'[s]
         /\ \A i \in 1..Len(roomState[r].bets) :
              roomState[r].bets[i].status \notin NonTerminal]_vars

C8_LeaveKeepsParticipant ==
  \A s \in conn, r \in Rooms :
    s \in UserIds(roomState[r]) =>
      LET name == roomState[r].users[UserIndex(roomState, r, s)].username
          L == leaveRoom(s, r).rs
          D == disconnect(s).rs
      IN /\ r \in DOMAIN L => (name \in UserNames(L[r]) /\ s \notin L[r].videoReady)
         /\ r \in DOMAIN D => (name \in UserNames(D[r]) /\ s \notin D[r].videoReady)

\* C9 (as claimed): the target of a pending bet, back in the room under the
\* same display name on a new connection after its old connection closed, can
\* accept the bet
C9_TargetAcceptsAfterReconnect ==
  \A s \in conn, r \in Rooms, inp \in AcceptInputs : \A i \in 1..Len(BetsOf(r)) :
    LET b == BetsOf(r)[i]
    IN (/\ b.status = "pending"
        /\ b.creatorName # b.targetName
        /\ b.targetId \notin conn
        /\ s \in UserIds(roomState[r])
        /\ roomState[r].users[UserIndex(roomState, r, s)].username = b.targetName) =>
         acceptBetOffer(s, r, b.id, inp).rs[r].bets[i].status = "active"

\* C10 (as claimed): the creator and the target of every bet are two
\* different identities
C10_DistinctParties ==
  \A r \in Rooms : \A i \in 1..Len(BetsOf(r)) :
    /\ BetsOf(r)[i].creatorId # BetsOf(r)[i].targetId
    /\ BetsOf(r)[i].creatorName # BetsOf(r)[i].targetName

\* C11 (as claimed): createBetOffer changes the room registry only when the
\* room exists and lists both the creator and the target; it then appends one
\* bet, pending, with the creator's stake and pick as given, the target's stake
\* mirroring the creator's, and the target's pick the empty string
C11_OfferCreatesPendingBet ==
  \A s \in conn, r \in RoomIds, g \in 1..MaxSockets, inp \in OfferInputs :
    LET R == createBetOffer(s, r, g, inp)
        ok == r \in Rooms /\ {s, g} \subseteq UserIds(roomState[r])
    IN s # g =>
       /\ ~ok => R.rs = roomState
       /\ ok => /\ Len(R.rs[r].bets) = Len(BetsOf(r)) + 1
                /\ SubSeq(R.rs[r].bets, 1, Len(BetsOf(r))) = BetsOf(r)
                /\ R.rs = [roomState EXCEPT ![r].bets = R.rs[r].bets]
                /\ LET b == R.rs[r].bets[Len(R.rs[r].bets)]
                   IN /\ b.status = "pending"
                      /\ b.creatorStake = inp.stake
                      /\ b.creatorPick = inp.pick
                      /\ b.targetStake = inp.stake
                      /\ b.targetPick = ""

\* names and handles in lexicographic order of their text
SortedNames == <<"", " ", "Bob", "al", "alice", "bob">>
SortedIds == <<1, 10, 11, 2, 9>>

\* C12: of two different names (handles) exactly one is the initiator, the one
\* that sorts first as text, and none of two equal ones; the two video-peer
\* events of a pairing carry complementary flags, and so do the peers that two
\* differently named participants of a room make for each other
C12_InitiatorRule ==
  /\ \A i, j \in 1..Len(SortedNames) :
       /\ shouldInitiate(SortedNames[i], SortedNames[j]) <=> i < j
       /\ i # j => shouldInitiate(SortedNames[i], SortedNames[j])
                     # shouldInitiate(SortedNames[j], SortedNames[i])
       /\ createPeer(SortedNames[i], SortedNames[i]) = << >>
  /\ \A i, j \in 1..Len(SortedIds) :
       /\ isInitiator(SortedIds[i], SortedIds[j]) <=> i < j
       /\ i # j => VideoPeer(SortedIds[i], SortedIds[j])[1].data.initiator
                     # VideoPeer(SortedIds[i], SortedIds[j])[2].data.initiator
  /\ \A r \in Rooms : \A i, j \in 1..Len(roomState[r].users) :
       LET u == roomState[r].users[i]
           v == roomState[r].users[j]
       IN /\ u.id # v.id =>
               isInitiator(u.id, v.id) # isInitiator(v.id, u.id)
          /\ u.username # v.username =>
               /\ createPeer(u.username, v.username) # << >>
               /\ createPeer(v.username, u.username) # << >>
               /\ createPeer(u.username, v.username)[1]
                    # createPeer(v.username, u.username)[1]

\* C12 witness: two differently named participants of a media room, both ready
C12_Witness ==
  \E r \in Rooms : \E i, j \in 1..Len(roomState[r].users) :
    /\ roomState[r].users[i].username = "alice"
    /\ roomState[r].users[j].username = "bob"
    /\ {roomState[r].users[i].id, roomState[r].users[j].id}
         \subseteq roomState[r].videoReady

ActiveBets(st) == {i \in 1..Len(st.bets) : st.bets[i].status = "active"}
SettledBets(st) == {i \in 1..Len(st.bets) : st.bets[i].status = "settled"}

\* a lookup result with a finished status and two scores
FinishedRecord(res) ==
  /\ res.kind = "record"
  /\ res.status \in FinishedStatuses
  /\ res.homeScore # << >> /\ res.awayScore # << >>

\* C13: a step that settles a bet of a room settles every bet of that room
\* that was active before the step, and changes nothing else; the handling of
\* a finished record with two scores leaves no bet of the room active and
\* emits one room snapshot, to the room's subscribers, showing all of them
\* settled; any other lookup result emits nothing
C13_SettlementAtomic ==
  /\ [][\A r \in RoomIds :
          (/\ r \in DOMAIN roomState /\ r \in DOMAIN roomState'
           /\ Len(roomState'[r].bets) = Len(roomState[r].bets)
           /\ SettledBets(roomState'[r]) # SettledBets(roomState[r])) =>
            /\ SettledBets(roomState'[r]) =
                 SettledBets(roomState[r]) \cup ActiveBets(roomState[r])
            /\ ActiveBets(roomState'[r]) = {}
            /\ \A q \in DOMAIN roomState \ {r} :
                 q \in DOMAIN roomState' /\ roomState'[q] = roomState[q]]_vars
  /\ [](\A r \in Rooms, res \in LookupResults :
          LET R == settleLookup(r, res)
          IN IF FinishedRecord(res)
             THEN /\ ActiveBets(R.rs[r]) = {}
                  /\ SettledBets(R.rs[r]) =
                       SettledBets(roomState[r]) \cup ActiveBets(roomState[r])
                  /\ Len(R.out) = 1
                  /\ R.out[1].ev = "room-state"
                  /\ R.out[1].to = RoomSockets(joined, r)
                  /\ R.out[1].data = R.rs[r]
             ELSE R.out = << >> /\ R.rs = roomState)

\* C13 witness: a room whose two bets were both settled on the same record
C13_Witness ==
  \E r \in Rooms :
    /\ Len(BetsOf(r)) = 2
    /\ SettledBets(roomState[r]) = {1, 2}
    /\ BetsOf(r)[1].result = BetsOf(r)[2].result

\* the rooms of a queue up to and including the first the loop must look up
RECURSIVE Skipped(_, _)
Skipped(queue, rs) ==
  IF queue = << >> THEN 0
  ELSE IF NeedsLookup(rs, Head(queue)) THEN 1
  ELSE 1 + Skipped(Tail(queue), rs)

\* C14: a lookup that fails or finds nothing changes no room and emits
\* nothing; whatever a lookup returned, the loop goes on to the next room of
\* the cycle that has an active bet and a match, with the rooms after it
\* still to visit, and the cycle ends only when no room is left to look up;
\* a cycle starts at the first such room of the registry
C14_LookupFailureIsolated ==
  /\ [](\A res \in {[kind |-> "fail"], [kind |-> "none"]} :
          tick.room # "" =>
            /\ settleLookup(tick.room, res).rs = roomState
            /\ settleLookup(tick.room, res).out = << >>)
  /\ [][tick' # tick =>
          LET queue == IF tick.room = "" THEN roomKeys ELSE tick.queue
              n == Skipped(queue, roomState')
          IN IF \E i \in 1..Len(queue) : NeedsLookup(roomState', queue[i])
             THEN /\ tick'.room = queue[n]
                  /\ tick'.queue = SubSeq(queue, n + 1, Len(queue))
             ELSE tick' = IdleTick]_vars

\* C14 witness: the loop is looking up the second room of the registry while
\* the first, looked up before it in this cycle, still has its active bet
C14_Witness ==
  /\ Len(roomKeys) = 2
  /\ tick.room = roomKeys[2]
  /\ NeedsLookup(roomState, roomKeys[1])
  /\ NeedsLookup(roomState, roomKeys[2])

Picks == {"Lions win", "Tigers win", "draw", "ACCEPT", ""}

\* the winning pick of a final score, and the winner of two picks
ExpectedPick(home, away) ==
  IF away > home THEN "Tigers win"
  ELSE IF home > away THEN "Lions win" ELSE "draw"

ExpectedWinner(bet, pick) ==
  CASE bet.creatorPick = pick /\ bet.targetPick # pick -> bet.creatorName
    [] bet.creatorPick # pick /\ bet.targetPick = pick -> bet.targetName
    [] bet.creatorPick = pick /\ bet.targetPick = pick -> "Both right"
    [] OTHER -> "Both wrong"

\* C15: the winning pick of a finished record with two scores is the away
\* team's, the home team's or "draw" by the comparison of the scores; the
\* winner of a bet is the party whose pick alone equals it, "Both right" or
\* "Both wrong"; and every settled bet carries the status, the score and the
\* winning pick of its record and the winner they give
C15_OutcomeAndWinner ==
  /\ \A h, a \in 0..2, st \in FinishedStatuses :
       Outcome([kind |-> "record", status |-> st,
                homeScore |-> <<h>>, awayScore |-> <<a>>]) = <<ExpectedPick(h, a)>>
  /\ \A cp, tp, w \in Picks :
       LET bet == [creatorName |-> "alice", targetName |-> "bob",
                   creatorPick |-> cp, targetPick |-> tp]
       IN WinnerName(bet, w) = ExpectedWinner(bet, w)
  /\ \A r \in Rooms : \A i \in 1..Len(BetsOf(r)) :
       LET b == BetsOf(r)[i]
       IN b.status = "settled" =>
            /\ b.result[1].status \in FinishedStatuses
            /\ b.result[1].pick = ExpectedPick(b.result[1].home, b.result[1].away)
            /\ b.winnerName = ExpectedWinner(b, b.result[1].pick)
            /\ \E e \in RawEvents :
                 /\ GameRecord(e).status = b.result[1].status
                 /\ GameRecord(e).homeScore = <<b.result[1].home>>
                 /\ GameRecord(e).awayScore = <<b.result[1].away>>

\* C15 witness: a settled bet won by its target alone, on an away win
C15_Witness ==
  \E r \in Rooms : \E i \in 1..Len(BetsOf(r)) :
    /\ BetsOf(r)[i].status = "settled"
    /\ BetsOf(r)[i].result[1].pick = "Tigers win"
    /\ BetsOf(r)[i].creatorName # BetsOf(r)[i].targetName
    /\ BetsOf(r)[i].winnerName = BetsOf(r)[i].targetName

\* C16: a bet is settled only by the loop's step on its room, from the status
\* active it has when that step is taken, and that step leaves every bet that
\* is not active then as it is, whatever the lookup returned; an accept or a
\* cancel event that arrives when the bet is settled changes nothing
C16_TransitionsDecidedAtApply ==
  /\ [][\A r \in RoomIds, i \in 1..MaxBets :
          SameBet(r, i) =>
            LET b == roomState[r].bets[i]
                c == roomState'[r].bets[i]
            IN /\ (b.status # "settled" /\ c.status = "settled") =>
                    (b.status = "active" /\ tick.room = r /\ tick' # tick)
               /\ (tick' # tick /\ b.status # "active") => c = b]_vars
  /\ [](\A r \in Rooms, res \in LookupResults : \A i \in 1..Len(BetsOf(r)) :
          BetsOf(r)[i].status # "active" =>
            settleLookup(r, res).rs[r].bets[i] = BetsOf(r)[i])
  /\ [](\A s \in conn, r \in Rooms, inp \in AcceptInputs :
          \A i \in 1..Len(BetsOf(r)) :
            BetsOf(r)[i].status = "settled" =>
              /\ acceptBetOffer(s, r, BetsOf(r)[i].id, inp).rs = roomState
              /\ cancelBetOffer(s, r, BetsOf(r)[i].id).rs = roomState
              /\ requestCancelBet(s, r, BetsOf(r)[i].id, ClientName(s)).rs = roomState)

\* C16 witness: the lookup for a room is in flight and the bet that was active
\* when it was started has since been cancelled by both sides
C16_Witness ==
  \E r \in Rooms :
    /\ tick.room = r
    /\ Len(BetsOf(r)) = 1
    /\ BetsOf(r)[1].status = "cancelled"
    /\ BetsOf(r)[1].cancel = [creator |-> TRUE, target |-> TRUE]

\* room keys and names that are missing, empty, or empty once trimmed
BlankInputs == {"", " ", Undefined}

\* C17 (as claimed): joinRoom with a blank room key or a blank display name
\* changes nothing: no room, no participant, no subscription, no emission
C17_BlankJoinIsNoOp ==
  \A s \in conn, r \in MediaRooms \cup BlankInputs, n \in {"alice"} \cup BlankInputs :
    (r \in BlankInputs \/ n \in BlankInputs) => joinRoom(s, r, n, Null) = Cur

KeyInputs == {"public:1", "private:X", "private", " ", ""}
PrivateKeys == {"private:X"}

\* C18: a room relays media exactly when its key begins with "private:", from
\* its creation on and without change; video-ready for a room that does not
\* relay media, or does not exist, changes nothing and emits nothing, and for
\* one that does it adds the connection to the readiness set
C18_MediaFlagByKeyPrefix ==
  /\ [](\A k \in KeyInputs : NewRoom(k).videoAllowed <=> k \in PrivateKeys)
  /\ [](\A r \in Rooms : roomState[r].videoAllowed <=> r \in PrivateKeys)
  /\ [][\A r \in RoomIds :
          (r \in DOMAIN roomState /\ r \in DOMAIN roomState') =>
            roomState'[r].videoAllowed = roomState[r].videoAllowed]_vars
  /\ [](\A s \in conn, r \in KeyInputs :
          IF r \in Rooms /\ r \in PrivateKeys
          THEN /\ videoReady(s, r).rs =
                    [roomState EXCEPT ![r].videoReady = @ \cup {s}]
               /\ videoReady(s, r).out # << >>
          ELSE videoReady(s, r) = Cur)

\* C18 witness: a chat-only room with a participant and nobody ready, next to
\* a media room in which a connection has declared ready
C18_Witness ==
  /\ "public:1" \in Rooms /\ "private:X" \in Rooms
  /\ roomState["public:1"].users # << >>
  /\ roomState["public:1"].videoReady = {}
  /\ roomState["private:X"].videoReady # {}

\* C19: a signal addressed to a connection handle changes no state and is one
\* event, carrying the payload as sent and the sender's handle, delivered to
\* that handle alone when it is connected and to nobody when it is not; and a
\* signal event is emitted only by the step that handles the signal, so none
\* is kept for later
C19_SignalToDestinationOnly ==
  /\ [](\A s \in conn, h \in 1..MediaSockets, d \in SignalPayloads \ {""} :
          LET R == signal(s, ToHandle(h), d)
          IN /\ R.rs = roomState /\ R.jn = joined /\ R.keys = roomKeys
             /\ Len(R.out) = 1
             /\ R.out[1].ev = "signal"
             /\ R.out[1].data = [from |-> s, data |-> d]
             /\ R.out[1].to = IF h \in conn THEN {h} ELSE {})
  /\ [][\A k \in 1..Len(emitted') :
          emitted'[k].ev = "signal" =>
            /\ Len(emitted') = 1
            /\ emitted'[k].data.from \in conn
            /\ emitted'[k].data.data \in SignalPayloads \ {""}
            /\ emitted'[k].to \subseteq conn
            /\ UNCHANGED <<conn, joined, roomKeys, roomState>>]_vars

\* C19 witness: the last step delivered a signal of connection 1 to
\* connection 2
C19_Witness ==
  /\ conn = {1, 2}
  /\ emitted = << [ev |-> "signal", to |-> {2},
                   data |-> [from |-> 1, data |-> "offer"]] >>

\* two connections are listed as participants of one room
ShareRoom(s, h) == \E r \in Rooms : {s, h} \subseteq UserIds(roomState[r])

\* C20 (as claimed): a signal to a connection that shares no room with the
\* sender is delivered to nobody
C20_SignalWithinRoomOnly ==
  \A s \in conn, h \in conn, d \in SignalPayloads \ {""} :
    (s # h /\ ~ShareRoom(s, h)) =>
      \A k \in 1..Len(signal(s, ToHandle(h), d).out) :
        signal(s, ToHandle(h), d).out[k].to = {}

\* chat texts that are missing, empty, or empty once trimmed
BlankTexts == {"", " ", Undefined, Null}

\* C21 (as claimed): chatMessage with a blank text changes nothing and emits
\* nothing; with any other text it is one message event to the subscribers of
\* the room, carrying the user and the text as sent
C21_ChatDroppedOrVerbatim ==
  \A s \in conn, r \in MediaRooms, t \in ChatTexts \cup BlankTexts :
    LET R == chatMessage(s, r, ClientName(s), t)
    IN IF t \in BlankTexts
       THEN R = Cur
       ELSE /\ R.rs = roomState /\ R.jn = joined /\ R.keys = roomKeys
            /\ R.out = << [ev |-> "message", to |-> RoomSockets(joined, r),
                           data |-> [user |-> ClientName(s), text |-> t]] >>

\* the rooms a handler result R changed or created
Mutated(R) ==
  {r \in DOMAIN R.rs : r \notin DOMAIN roomState \/ R.rs[r] # roomState[r]}

\* every room R changed has a snapshot in R's emissions that shows the room
\* as R leaves it, and no snapshot of another content after it
SnapshotFollows(R) ==
  \A r \in Mutated(R) :
    \E k \in 1..Len(R.out) :
      /\ R.out[k].ev = "room-state"
      /\ R.out[k].room = r
      /\ R.out[k].data = R.rs[r]
      /\ \A j \in (k + 1)..Len(R.out) :
           (R.out[j].ev = "room-state" /\ R.out[j].room = r) =>
             R.out[j].data = R.rs[r]

\* C22 (as claimed): whatever event a connection sends, every room the
\* handler changes (participants, bets, match or readiness set) gets a
\* snapshot, in the same step, that equals the room after the change
C22_SnapshotAfterMutation ==
  /\ \A s \in conn, r \in RoomIds, m \in Matches \cup {Null} :
       SnapshotFollows(joinRoom(s, r, ClientName(s), m))
  /\ \A s \in conn, r \in RoomIds :
       /\ SnapshotFollows(leaveRoom(s, r))
       /\ SnapshotFollows(videoReady(s, r))
  /\ \A s \in conn : SnapshotFollows(disconnect(s))
  /\ \A s \in conn, r \in RoomIds, g \in 1..MaxSockets, inp \in OfferInputs :
       SnapshotFollows(createBetOffer(s, r, g, inp))
  /\ \A s \in conn, r \in RoomIds, b \in 1..MaxBets :
       /\ \A inp \in AcceptInputs : SnapshotFollows(acceptBetOffer(s, r, b, inp))
       /\ SnapshotFollows(cancelBetOffer(s, r, b))
       /\ SnapshotFollows(requestCancelBet(s, r, b, ClientName(s)))
  /\ \A r \in Rooms, res \in LookupResults : SnapshotFollows(settleLookup(r, res))

\* a connection handle is the handle of no participant and in no readiness set
Absent(rs, s) ==
  \A r \in DOMAIN rs :
    /\ \A i \in 1..Len(rs[r].users) : rs[r].users[i].id # s
    /\ s \notin rs[r].videoReady

\* C23: the disconnect handler leaves the closing connection's handle on no
\* participant and in no readiness set of any room, and subscribed to none;
\* so in every state every participant handle and every readiness entry is
\* the handle of an open connection
C23_DisconnectEveryRoom ==
  /\ \A s \in conn :
       /\ Absent(disconnect(s).rs, s)
       /\ disconnect(s).jn[s] = {}
       /\ DOMAIN disconnect(s).rs = Range(disconnect(s).keys)
  /\ \A s \in 1..MediaSockets : s \notin conn => Absent(roomState, s)

\* C23 witness: the connection that just closed was the only participant of
\* the first room of the registry, deleted in the pass, and one of two in the
\* second, which still exists
C23_Witness ==
  /\ conn = {2}
  /\ Rooms = {"private:X"}
  /\ Len(emitted) = 6
  /\ emitted[3].ev = "room-state" /\ emitted[3].room = "public:1"
  /\ emitted[3].data.users = << >>
  /\ emitted[6].ev = "room-state" /\ emitted[6].room = "private:X"
  /\ emitted[6].data = roomState["private:X"]
  /\ Absent(roomState, 1)

\* the fields of a bet that are fixed when it is offered
Offered(b) ==
  <<b.id, b.creatorId, b.creatorName, b.targetId, b.targetName,
    b.title, b.creatorStake, b.creatorPick>>

\* C24: in every step a room that exists before and after keeps every bet it
\* had, at the same position and with the fields fixed at the offer unchanged,
\* so bets are only ever appended; and the bets of a room are listed in the
\* order they were offered
C24_BetsAppendOnly ==
  /\ [][\A r \in RoomIds :
          (r \in DOMAIN roomState /\ r \in DOMAIN roomState') =>
            /\ Len(roomState'[r].bets) >= Len(roomState[r].bets)
            /\ \A i \in 1..Len(roomState[r].bets) :
                 Offered(roomState'[r].bets[i]) = Offered(roomState[r].bets[i])]_vars
  /\ [](\A r \in Rooms : \A i, j \in 1..Len(BetsOf(r)) :
          i < j => BetsOf(r)[i].id < BetsOf(r)[j].id)

\* C24 witness: a room that still lists a cancelled bet and, after it, the
\* settled bet that was offered later
C24_Witness ==
  \E r \in Rooms :
    /\ Len(BetsOf(r)) = 2
    /\ BetsOf(r)[1].status = "cancelled"
    /\ BetsOf(r)[2].status = "settled"

\* bet ids the events may name: those handed out so far and one that was not
BetIds == 1..(MaxBets + 1)

\* the bet of room r with the given id: << >> when the room or the bet is
\* unknown, else <<bet>>
BetById(r, b) ==
  IF r \in Rooms /\ \E i \in 1..Len(BetsOf(r)) : BetsOf(r)[i].id = b
  THEN << BetsOf(r)[CHOOSE i \in 1..Len(BetsOf(r)) : BetsOf(r)[i].id = b] >>
  ELSE << >>

\* C25: a createBetOffer for an unknown room or with a party that is not
\* listed, and an acceptBetOffer, cancelBetOffer or requestCancelBet for an
\* unknown room or bet, a bet not in the required status, or from a requester
\* that is not the authorised one, changes nothing and emits nothing
C25_RejectedBetEventNoEffect ==
  /\ \A s \in conn, r \in RoomIds, g \in 1..MaxSockets, inp \in OfferInputs :
       (r \notin Rooms \/ ~({s, g} \subseteq UserIds(roomState[r]))) =>
         createBetOffer(s, r, g, inp) = Cur
  /\ \A s \in conn, r \in RoomIds, b \in BetIds :
       LET bet == BetById(r, b)
       IN /\ (bet = << >> \/ bet[1].status # "pending" \/ s # bet[1].targetId) =>
               \A inp \in AcceptInputs : acceptBetOffer(s, r, b, inp) = Cur
          /\ (bet = << >> \/ bet[1].status # "pending" \/ s # bet[1].creatorId) =>
               cancelBetOffer(s, r, b) = Cur
          /\ (bet = << >> \/ bet[1].status \in Terminal
                \/ ClientName(s) \notin {bet[1].creatorName, bet[1].targetName}) =>
               requestCancelBet(s, r, b, ClientName(s)) = Cur

\* C25 witness: a pending bet between two participants of a room that lists a
\* third, connected, participant
C25_Witness ==
  \E r \in Rooms : \E i \in 1..Len(BetsOf(r)) :
    /\ BetsOf(r)[i].status = "pending"
    /\ BetsOf(r)[i].creatorId # BetsOf(r)[i].targetId
    /\ \E s \in UserIds(roomState[r]) \cap conn :
         s \notin {BetsOf(r)[i].creatorId, BetsOf(r)[i].targetId}

\* the rooms of a handler result R that exist before and after keep their match
KeepsMatch(R) ==
  \A r \in DOMAIN R.rs \cap Rooms : R.rs[r].match = roomState[r].match

\* C26: the match of a room is one descriptor or none; a joinRoom carrying a
\* descriptor stores it in place of whatever was stored, one carrying none
\* leaves the stored one (none, in a new room); no other handler changes the
\* match of a room; and in every step a room's match changes only to the
\* descriptor a joinRoom of an open connection carried
C26_MatchSetOnlyByJoin ==
  /\ [](\A r \in Rooms : roomState[r].match \in Descriptors \cup {Null})
  /\ [](\A s \in conn, r \in RoomIds :
          /\ \A m \in Descriptors :
               joinRoom(s, r, ClientName(s), m).rs[r].match = m
          /\ joinRoom(s, r, ClientName(s), Null).rs[r].match =
               IF r \in Rooms THEN roomState[r].match ELSE Null
          /\ \A q \in Rooms \ {r}, m \in Descriptors \cup {Null} :
               joinRoom(s, r, ClientName(s), m).rs[q].match = roomState[q].match)
  /\ [](\A s \in conn, r \in RoomIds :
          /\ KeepsMatch(leaveRoom(s, r))
          /\ KeepsMatch(disconnect(s))
          /\ KeepsMatch(videoReady(s, r))
          /\ \A t \in ChatTexts : KeepsMatch(chatMessage(s, r, ClientName(s), t))
          /\ \A h \in 1..MaxSockets, d \in SignalPayloads :
               KeepsMatch(signal(s, ToHandle(h), d))
          /\ \A g \in 1..MaxSockets, inp \in OfferInputs :
               KeepsMatch(createBetOffer(s, r, g, inp))
          /\ \A b \in 1..MaxBets :
               /\ \A inp \in AcceptInputs : KeepsMatch(acceptBetOffer(s, r, b, inp))
               /\ KeepsMatch(cancelBetOffer(s, r, b))
               /\ KeepsMatch(requestCancelBet(s, r, b, ClientName(s))))
  /\ [][\A r \in RoomIds :
          (/\ r \in DOMAIN roomState /\ r \in DOMAIN roomState'
           /\ roomState'[r].match # roomState[r].match) =>
            \E s \in conn, m \in Descriptors :
              /\ roomState'[r].match = m
              /\ roomState' = joinRoom(s, r, ClientName(s), m).rs]_vars

\* C26 witness: a room that holds the refreshed descriptor, two participants
\* and a bet
C26_Witness ==
  \E r \in Rooms :
    /\ roomState[r].match = "m2"
    /\ Len(roomState[r].users) >= 2
    /\ Len(BetsOf(r)) = 1

\* C27 (as claimed): no room lists two participants under one display name
C27_UniqueDisplayNames ==
  \A r \in Rooms : \A i, j \in 1..Len(roomState[r].users) :
    i # j => roomState[r].users[i].username # roomState[r].users[j].username

\* everything of a room but its active bets is the same in st1 as in st
FrameKept(st, st1) ==
  /\ st1.users = st.users
  /\ st1.match = st.match
  /\ st1.videoReady = st.videoReady
  /\ st1.videoAllowed = st.videoAllowed
  /\ Len(st1.bets) = Len(st.bets)
  /\ \A i \in 1..Len(st.bets) : st.bets[i].status # "active" => st1.bets[i] = st.bets[i]

Skippable(st) == ActiveBets(st) = {} \/ st.match = Null

\* C28: whatever the score lookup returns, the settlement of a room changes
\* no other room, nothing at all when the room has no active bet or no match,
\* and otherwise only bets that are active; and every step of the loop leaves
\* the registry's rooms in place and changes them in no other way
C28_SettlementFrame ==
  /\ [](\A r \in Rooms, res \in LookupResults :
          LET R == settleLookup(r, res)
          IN /\ R.jn = joined /\ R.keys = roomKeys /\ R.nb = nextBet
             /\ DOMAIN R.rs = Rooms
             /\ \A q \in Rooms \ {r} : R.rs[q] = roomState[q]
             /\ Skippable(roomState[r]) => R.rs = roomState
             /\ FrameKept(roomState[r], R.rs[r]))
  /\ [][tick' # tick =>
          /\ DOMAIN roomState' = DOMAIN roomState
          /\ \A r \in DOMAIN roomState :
               /\ Skippable(roomState[r]) => roomState'[r] = roomState[r]
               /\ FrameKept(roomState[r], roomState'[r])]_vars

\* C28 witness: after a cycle of the loop one room has a settled bet and the
\* other, which has no match, still has its active bet
C28_Witness ==
  /\ tick = IdleTick
  /\ Rooms = {"public:1", "private:X"}
  /\ roomState["public:1"].match = Null
  /\ ActiveBets(roomState["public:1"]) # {}
  /\ SettledBets(roomState["private:X"]) # {}

\* picks and stakes an accept may carry, in every combination
AcceptCombos == [pick : {"Tigers win", ""}, stake : {50, 0}]

\* C29: an acceptBetOffer of the target's connection on a pending bet makes
\* the bet active, stores the pick sent ("ACCEPT" for an empty one) and the
\* stake sent when it is not zero (else the stake stored at the offer), and
\* changes no other field of the bet; so an accepted bet carries a pick and
\* the stake sent or its creator's
C29_AcceptRecordsPickAndStake ==
  /\ \A s \in conn, r \in Rooms, inp \in AcceptCombos : \A i \in 1..Len(BetsOf(r)) :
       LET b == BetsOf(r)[i]
           c == acceptBetOffer(s, r, b.id, inp).rs[r].bets[i]
       IN (b.status = "pending" /\ s = b.targetId) =>
            /\ c.status = "active"
            /\ c.targetPick = (IF inp.pick = "" THEN "ACCEPT" ELSE inp.pick)
            /\ c.targetStake = (IF inp.stake # 0 THEN inp.stake ELSE b.targetStake)
            /\ c.creatorStake = b.creatorStake
            /\ c.creatorPick = b.creatorPick
            /\ c = [b EXCEPT !.status = c.status, !.targetPick = c.targetPick,
                             !.targetStake = c.targetStake]
  /\ \A r \in Rooms : \A i \in 1..Len(BetsOf(r)) :
       LET b == BetsOf(r)[i]
       IN IF b.targetPick = Undefined
          THEN b.status \in {"pending", "cancelled"} /\ b.targetStake = b.creatorStake
          ELSE /\ b.targetPick \in {"Tigers win", "ACCEPT"}
               /\ b.targetStake \in {50, b.creatorStake}

\* C29 witness: a bet offered at 100 and accepted with no pick and no stake
C29_Witness ==
  \E r \in Rooms : \E i \in 1..Len(BetsOf(r)) :
    /\ BetsOf(r)[i].status = "active"
    /\ BetsOf(r)[i].targetPick = "ACCEPT"
    /\ BetsOf(r)[i].targetStake = 100
    /\ BetsOf(r)[i].creatorStake = 100
    /\ BetsOf(r)[i].creatorPick = "Lions win"

\* C30 (as claimed): whenever the client makes a peer for a name, its video
\* is started and the name is in the readiness set of the last snapshot or
\* is one whose video-ready or signal the client has received
C30_DialOnlyReady ==
  [][\A x \in client'.peers \ client.peers :
       /\ client'.video
       /\ x \in client.ready \/ x \in client'.heard]_vars

\* the peers a handler constructed, given the client c it found and the
\* client c1 it left: none for the client's own name, none for a name that
\* had a peer in the table, and no name twice
OneAttempt(c, c1) ==
  /\ \A i \in 1..Len(c1.made) :
       /\ c1.made[i] # Me
       /\ c1.made[i] \notin c.peers
       /\ c1.made[i] \in c1.peers
  /\ \A i, j \in 1..Len(c1.made) : i # j => c1.made[i] # c1.made[j]
  /\ c.peers \subseteq c1.peers

\* C31: in every state the client can be in, whichever event comes next,
\* createPeer constructs a peer only for a name other than the client's own
\* that has no peer in the table, at most one per name, and keeps the peers
\* it has; a video-ready for a name that has a peer constructs nothing and
\* leaves the client as it was
C31_OnePeerPerIdentity ==
  LET c == Entered(client)
  IN /\ \A n \in Names \cup {""} :
          /\ OneAttempt(c, onVideoReady(c, n))
          /\ OneAttempt(c, onPeerJoined(c, n))
          /\ n \in c.peers => onVideoReady(c, n) = c
          /\ MakePeer(MakePeer(c, n), n) = MakePeer(c, n)
          /\ \A d \in SignalData \cup {""} : OneAttempt(c, onSignal(c, n, d))
     /\ \A granted \in BOOLEAN : OneAttempt(c, startVideo(c, granted))
     /\ Me \notin client.peers

\* a video-ready for bob arrived while the client had its video on and a
\* peer for bob, and no peer was constructed
C31_Witness ==
  /\ client.video
  /\ client.last = [ev |-> "video-ready", from |-> "bob"]
  /\ "bob" \in client.peers
  /\ client.made = << >>

\* the client c1 a handler left has, for every peer it constructed, fed the
\* peer the signals that c held for that name, in the order of arrival and
\* ahead of the signal being handled, and holds none for it any more
Replayed(c, c1, later) ==
  \A n \in Names :
    IF n \in Range(c1.made)
    THEN /\ c1.applied[n] = c.pending[n] \o later
         /\ c1.pending[n] = << >>
    ELSE c1.pending[n] = c.pending[n]

\* C32: in every state the client can be in, a signal that arrives while the
\* video is off is appended to its sender's buffer and to no other and
\* reaches no peer; whichever handler constructs the peer for a name feeds
\* it that name's buffer in arrival order, ahead of the signal that arrived
\* with it, and empties that buffer; stopVideo leaves every buffer empty
C32_PendingSignalsInOrder ==
  LET c == Entered(client)
  IN /\ \A n \in Names, d \in SignalData :
          LET c1 == onSignal(c, n, d)
          IN IF ~c.video
             THEN c1 = [c EXCEPT !.pending[n] = Append(@, d)]
             ELSE /\ Replayed(c, c1, <<d>>)
                  /\ n \in c.peers => c1.applied[n] = Append(c.applied[n], d)
     /\ \A n \in Names :
          /\ Replayed(c, onVideoReady(c, n), << >>)
          /\ Replayed(c, onPeerJoined(c, n), << >>)
     /\ \A granted \in BOOLEAN : Replayed(c, startVideo(c, granted), << >>)
     /\ \A n \in Names : stopVideo(c).pending[n] = << >>
     /\ \A n \in client.peers : client.pending[n] = << >>

\* bob's offer and then ice arrived before the video was started; the peer
\* for bob, constructed on bob's video-ready, was fed both in that order
C32_Witness ==
  /\ client.video
  /\ client.last = [ev |-> "video-ready", from |-> "bob"]
  /\ client.made = <<"bob">>
  /\ client.applied["bob"] = <<"offer", "ice">>
  /\ client.pending["bob"] = << >>

\* C33 (as claimed): in every room the connections that have declared
\* readiness are participants of the room
C33_ReadySubsetOfParticipants ==
  \A r \in Rooms : roomState[r].videoReady \subseteq UserIds(roomState[r])

\* the destinations a signal event may name
SignalDestinations ==
  {ToHandle(h) : h \in 1..MediaSockets} \cup {ToKey(r) : r \in MediaRooms \cup {""}}

\* C34: whatever "from" a connection puts in its signal event, the handler
\* does the same: two events of one connection that differ only in that
\* field leave the same state and the same messages, and every message they
\* relay is tagged with the handle of the connection that sent the event
C34_SenderTagFromConnection ==
  \A s \in conn, to \in SignalDestinations, d \in SignalPayloads :
    \A f1, f2 \in ClaimedFrom :
      LET R1 == signalEvent(s, SignalEvent(to, f1, d))
          R2 == signalEvent(s, SignalEvent(to, f2, d))
      IN /\ R1 = R2
         /\ \A k \in 1..Len(R1.out) :
              /\ R1.out[k].ev = "signal"
              /\ R1.out[k].data.from = s

\* connection 2 sent connection 1 an offer that it marked as coming from
\* connection 1: what was delivered carries the handle of connection 2
C34_Witness ==
  /\ conn = {1, 2}
  /\ emitted = signalEvent(2, SignalEvent(ToHandle(1), 1, "offer")).out
  /\ emitted = << [ev |-> "signal", to |-> {1},
                   data |-> [from |-> 2, data |-> "offer"]] >>

\* C35: every room of the registry has a participant; a step that adds a
\* room to the registry is a join that leaves it with its one participant
\* subscribed, and a step that takes a room out of the registry removes the
\* one participant the room had
C35_NoEmptyRoom ==
  /\ [](\A r \in Rooms : Len(roomState[r].users) >= 1)
  /\ [][/\ \A r \in Rooms' \ Rooms :
            /\ Len(roomState'[r].users) = 1
            /\ roomState'[r].users[1].id \in conn
            /\ r \in joined'[roomState'[r].users[1].id]
            /\ r \notin joined[roomState'[r].users[1].id]
        /\ \A r \in Rooms \ Rooms' :
            /\ Len(roomState[r].users) = 1
            /\ r \notin joined'[roomState[r].users[1].id]
        /\ \A r \in Rooms \cap Rooms' :
            Len(roomState'[r].users) < Len(roomState[r].users) =>
              Len(roomState[r].users) >= 2]_vars

\* the last step sent the snapshot of a room that it left without
\* participants, the room is gone and another room is in the registry
C35_Witness ==
  /\ Rooms # {}
  /\ \E k \in 1..Len(emitted) :
       /\ emitted[k].ev = "room-state"
       /\ emitted[k].room \notin Rooms
       /\ emitted[k].data.users = << >>

\* the positions of a connection handle in a participant list
EntriesOf(users, s) == {i \in 1..Len(users) : users[i].id = s}

\* C36: no participant list holds a connection handle twice; and a join of
\* any connection to any room under any name leaves that room's list as the
\* other connections' entries, in their order, followed by one entry of the
\* joining connection under the name it joined with
C36_HandleListedOnce ==
  /\ \A r \in Rooms : \A s \in 1..MediaSockets :
       Cardinality(EntriesOf(roomState[r].users, s)) <= 1
  /\ \A s \in conn, r \in MediaRooms, n \in {"alice", "bob", " "} :
       LET old == IF r \in Rooms THEN roomState[r].users ELSE << >>
           new == joinRoom(s, r, n, Null).rs[r].users
       IN /\ EntriesOf(new, s) = {Len(new)}
          /\ new[Len(new)].username = n
          /\ SubSeq(new, 1, Len(new) - 1) = DropUser(old, s)
          /\ Len(new) = Len(old) + (IF EntriesOf(old, s) = {} THEN 1 ELSE 0)

\* connection 1, whose session name is alice, is listed once, under the
\* blank name of its last join, after connection 2
C36_Witness ==
  /\ "private:X" \in Rooms
  /\ roomState["private:X"].users =
       << [id |-> 2, username |-> "bob", credits |-> StartCredits],
          [id |-> 1, username |-> " ", credits |-> StartCredits] >>
  /\ Len(emitted) >= 1
  /\ emitted[1] = Msg({1, 2}, <<" ", "joined">>)
  /\ joinRoom(1, "private:X", "alice", Null).rs["private:X"].users =
       << [id |-> 2, username |-> "bob", credits |-> StartCredits],
          [id |-> 1, username |-> "alice", credits |-> StartCredits] >>

\* the record of connection s in a participant list (s is listed)
RecordOf(users, s) == users[CHOOSE i \in 1..Len(users) : users[i].id = s]

\* a participant of room r is listed on an old and on a new connection
Reconnected(r, old, new) ==
  /\ old # new
  /\ {old, new} \subseteq UserIds(roomState[r])
  /\ RecordOf(roomState[r].users, old).username =
       RecordOf(roomState[r].users, new).username

\* C37: whenever a participant is listed in a room on an old and on a new
\* connection, the disconnect of the old connection keeps the room, keeps
\* the participant's record on the new connection as it is, keeps the new
\* connection subscribed and leaves its readiness as it was; only the old
\* connection's record and readiness go
C37_LateDisconnectKeepsRejoined ==
  \A r \in Rooms : \A old, new \in conn :
    Reconnected(r, old, new) =>
      LET R == disconnect(old)
      IN /\ r \in DOMAIN R.rs
         /\ new \in UserIds(R.rs[r])
         /\ RecordOf(R.rs[r].users, new) = RecordOf(roomState[r].users, new)
         /\ R.rs[r].users = DropUser(roomState[r].users, old)
         /\ R.rs[r].videoReady = roomState[r].videoReady \ {old}
         /\ r \in R.jn[new]
         /\ R.rs[r].bets = roomState[r].bets

\* the disconnect of connection 2 was handled while connection 3, bob's new
\* connection, was a ready participant of the room: bob is still listed and
\* ready on connection 3
C37_Witness ==
  /\ 2 \notin conn
  /\ 3 \in conn
  /\ "private:X" \in Rooms
  /\ \E i \in 1..Len(roomState["private:X"].users) :
       roomState["private:X"].users[i] =
         [id |-> 3, username |-> "bob", credits |-> StartCredits]
  /\ 3 \in roomState["private:X"].videoReady
  /\ \E k \in 1..Len(emitted) :
       /\ emitted[k].ev = "peer-left"
       /\ emitted[k].data = 2
       /\ 3 \in emitted[k].to

\* the status of bet b, or "gone" when no room holds it
StatusOf(b) ==
  IF \E r \in Rooms : \E i \in 1..Len(BetsOf(r)) : BetsOf(r)[i].id = b
  THEN LET r == CHOOSE x \in Rooms : \E i \in 1..Len(BetsOf(x)) : BetsOf(x)[i].id = b
           i == CHOOSE j \in 1..Len(BetsOf(r)) : BetsOf(r)[j].id = b
       IN BetsOf(r)[i].status
  ELSE "gone"

\* bet b is active in a room that has a match
AwaitsResult(b) ==
  \E r \in Rooms :
    /\ roomState[r].match # Null
    /\ \E i \in 1..Len(BetsOf(r)) : BetsOf(r)[i].id = b /\ BetsOf(r)[i].status = "active"

\* the lookups that report a finished match with two scores keep succeeding
LookupSucceeds ==
  SF_vars(\E res \in {x \in SettleResults : FinishedRecord(x)} : TickLookup(res))

\* C38: if lookups that are tried again and again eventually report the
\* match finished with two scores, every bet that is active in a room with a
\* match is eventually settled, unless its cancellation was asked for or
\* its room was deleted first; a lookup that fails or reports an unfinished
\* match leaves the room as it is, and the next tick looks the room up again
C38_SettlementEventually ==
  /\ LookupSucceeds =>
       \A b \in 1..MaxBets :
         AwaitsResult(b) ~> StatusOf(b) \in {"settled", "cancel_pending", "cancelled", "gone"}
  /\ [](\A res \in SettleResults :
          (tick.room # "" /\ ~FinishedRecord(res)) =>
             settleLookup(tick.room, res).rs = roomState)
  /\ [](\A b \in 1..MaxBets :
          (AwaitsResult(b) /\ tick.room = "") =>
             ScanRooms(roomKeys, roomState).room # "")

\* the bet was settled as a draw on a record reported Closed, and the loop
\* is idle again
C38_Witness ==
  /\ tick = IdleTick
  /\ StatusOf(1) = "settled"
  /\ \E r \in Rooms :
       /\ BetsOf(r)[1].result[1].status = "Closed"
       /\ BetsOf(r)[1].result[1].pick = "draw"

\* the sport a games request is served for
AskedSport == IF games.req.sport = "" THEN "soccer" ELSE games.req.sport
AskedCodes == IF games.req.leagueCode = "" THEN MixCodes ELSE <<games.req.leagueCode>>

\* the scoreboard request for key k succeeds
Fetched(k) == games.req.date = "2026-01-02" /\ games.feed[k].ok

\* the ids carried by the events of the i-th league asked for, when its
\* fetch succeeded
LeagueIds(i) ==
  IF Fetched(AskedCodes[i])
  THEN {e.id : e \in Range(games.feed[AskedCodes[i]].events)} \ {Undefined, ""}
  ELSE {}

\* C39: a served soccer query answers 200 whatever fetches failed; its
\* games carry no empty id and no id twice, their ids are exactly the ids
\* found on the scoreboards of the leagues whose fetch succeeded, and the
\* record kept for an id is the one of the first league asked for that
\* carries it.  A query for a sport of the scoreboard map answers 500
\* exactly when its one fetch fails, and no other query answers 500
C39_LeagueFailureIsolated ==
  games.resp # NoResponse =>
    LET out == games.resp.games
    IN IF AskedSport = "soccer"
       THEN /\ games.resp.code = 200
            /\ \A k \in 1..Len(out) : out[k].id # ""
            /\ \A k, l \in 1..Len(out) : k # l => out[k].id # out[l].id
            /\ {out[k].id : k \in 1..Len(out)} =
                 UNION {LeagueIds(i) : i \in 1..Len(AskedCodes)}
            /\ \A k \in 1..Len(out) :
                 \E i \in 1..Len(AskedCodes) :
                   /\ out[k].leagueCode = AskedCodes[i]
                   /\ out[k].id \in LeagueIds(i)
                   /\ \A j \in 1..(i - 1) : out[k].id \notin LeagueIds(j)
       ELSE IF AskedSport \in SportMap
       THEN games.resp.code = (IF Fetched(AskedSport) THEN 200 ELSE 500)
       ELSE games.resp = [code |-> 200, games |-> << >>]

\* the mix was asked for: the first league's fetch failed, the second
\* carried g2 and g1, the third an event without id and g2; the answer is
\* 200 with g2 and g1, both as records of the second league
C39_Witness ==
  /\ games.req = [sport |-> "soccer", leagueCode |-> "", date |-> "2026-01-02"]
  /\ ~games.feed[MixCodes[1]].ok
  /\ games.feed[MixCodes[2]] = [ok |-> TRUE, events |-> <<FeedEvents.g2, FeedEvents.g1>>]
  /\ games.feed[MixCodes[3]] = [ok |-> TRUE, events |-> <<FeedEvents.anon, FeedEvents.g2>>]
  /\ games.resp.code = 200
  /\ Len(games.resp.games) = 2
  /\ games.resp.games[1].id = "g2" /\ games.resp.games[1].leagueCode = MixCodes[2]
  /\ games.resp.games[2].id = "g1" /\ games.resp.games[2].leagueCode = MixCodes[2]
====
